---- MODULE Spec2Model ----
(***************************************************************************)
(* Ethos memory service: the semantic-fact store with its conflict         *)
(* resolution and the consolidation cycle (consolidate.rs), the decay and  *)
(* LTP engine (decay.rs), the retrieval engine (retrieve.rs, graph.rs)     *)
(* behind the socket and HTTP (router.rs, http.rs), the linker             *)
(* (linker.rs), ingest and the re-embed worker (ingest.rs, reembed.rs),    *)
(* the embedding client (embeddings.rs) and the server's tasks and their   *)
(* shutdown (main.rs) over one memory store.                               *)
(*                                                                         *)
(* Scores (salience, confidence, importance, cosine scores, edge weights)  *)
(* are fixed-point integers: One stands for 1.0, so 0.05 is 500.  A        *)
(* product of two scores is (a * b) \div One.  Time is counted in days     *)
(* and seconds into the day.  A handler runs as one atomic step; where a   *)
(* step draws the outcome of a statement or of a request, its failure is   *)
(* one of the outcomes, elsewhere the statements succeed.  A task a        *)
(* handler spawns runs in steps of its own.                                *)
(***************************************************************************)
EXTENDS Integers, Sequences, FiniteSets, TLC

VARIABLES
    facts,       \* semantic_facts: sequence of rows, the id of a row is its index
    inbox,       \* review inbox file: sequence of appended entries
    lastUpsert,  \* what the upsert_fact call of the last step saw and returned
    vectors,     \* memory_vectors: sequence of rows, the id of a row is its index
    episodes,    \* episodic_traces: sequence of rows, the id of a row is its index
    links,       \* memory_graph_links: set of edges
    tasks,       \* spawned retrieval-recording tasks: the ids each has left
    lastSearch,  \* what the search_memory call of the last step returned
    now,         \* wall clock, in days
    sweeps,      \* decay sweeps run so far
    session_events, \* session_events: sequence of rows
    secs,        \* wall clock, seconds into the day of now
    lastCycle,   \* what the consolidation tick or trigger of the last step did
    cycles,      \* consolidation cycles run so far
    lastRequest, \* the search request of the last step as its client sees it
    proc,        \* where main and each task it spawns stand
    rx,          \* the broadcast receivers of the shutdown channel
    backend,     \* whether the embedding backend is degraded or healthy
    embed_tasks, \* spawned embedding tasks: the memory id each is to embed
    call,        \* the embed call in progress on the embedding client
    lastIngest,  \* what the ingest of the last step was given and returned
    applied      \* the arguments and the result of a function applied on its own

\* the memory store and its clock
storeVars == <<facts, inbox, lastUpsert, vectors, episodes, links, tasks, lastSearch, now, sweeps>>

\* the server around the store
serverVars == <<session_events, secs, lastCycle, cycles, lastRequest>>

\* the tokio runtime of the server process
runtimeVars == <<proc, rx>>

\* the ingest and embedding pipeline
pipelineVars == <<backend, embed_tasks, call, lastIngest>>

\* the functions applied on their own
coreVars == <<applied>>

vars == <<storeVars, serverVars, runtimeVars, pipelineVars, coreVars>>

(***************************************************************************)
(* Values                                                                  *)
(***************************************************************************)
One == 10000
NULL == -1

Min(a, b) == IF a <= b THEN a ELSE b
Max(a, b) == IF a >= b THEN a ELSE b

\* conflict_resolution.auto_supersede_confidence_delta = 0.15
AutoSupersedeDelta == 1500

\* DecayConfig: frequency_weight 0.3, emotional_weight 0.2, prune_threshold 0.05
FrequencyWeight == 3000
EmotionalWeight == 2000
PruneThreshold == 500

(***************************************************************************)
(* Bounds of the model                                                     *)
(***************************************************************************)
MaxFacts == 3      \* rows of semantic_facts
MaxObjLen == 3     \* characters of a fact's object
MaxNow == 1        \* clock ticks
DaysPerTick == 20  \* days that pass at one clock tick
MaxCount == 1      \* retrievals a caller records per fact and per episode
MaxRetrievals == 2 \* retrievals searches record per memory vector
MaxSweeps == 2     \* decay sweeps
MaxCycles == 2     \* consolidation cycles
ReembedBatchSize == 2 \* reembed_batch_size
MaxVectors == 5    \* rows of memory_vectors
MaxElapse == 2     \* steps of the seconds clock
SecondsPerStep == 45

(***************************************************************************)
(* Strings are sequences of one-character strings.                         *)
(***************************************************************************)
to_lowercase_char(c) ==
    CASE c = "R" -> "r"
      [] c = "P" -> "p"
      [] OTHER -> c

to_lowercase(s) == [i \in 1..Len(s) |-> to_lowercase_char(s[i])]

\* str::contains: needle occurs as a contiguous substring of hay
contains(hay, needle) ==
    \E i \in 1..(Len(hay) + 1) :
        /\ i + Len(needle) - 1 <= Len(hay)
        /\ SubSeq(hay, i, i + Len(needle) - 1) = needle

are_objects_compatible(obj1, obj2) ==
    LET o1 == to_lowercase(obj1)
        o2 == to_lowercase(obj2)
    IN  contains(o1, o2) \/ contains(o2, o1)

(***************************************************************************)
(* Extracted facts handed to upsert_fact                                   *)
(***************************************************************************)
Fact(kind, predicate, object, confidence, source_episode) ==
    [kind |-> kind, subject |-> "Project", predicate |-> predicate,
     object |-> object, confidence |-> confidence, source_episode |-> source_episode]

\* objects R and r are compatible only case-insensitively, p is incompatible
\* with both; 9800 - 8300 is exactly auto_supersede_confidence_delta
ExtractedFact ==
    { Fact("fact", "uses", <<"R">>, 8300, 1),
      Fact("fact", "uses", <<"r">>, 8300, 2),
      Fact("fact", "uses", <<"p">>, 8300, 1),
      Fact("fact", "uses", <<"p">>, 9800, 2),
      Fact("decision", "uses", <<"R">>, 8300, 1),
      Fact("decision", "uses", <<"p">>, 9800, 2),
      Fact("fact", "plan", <<"p">>, 8300, 1) }

(***************************************************************************)
(* consolidate.rs: the semantic_facts statements                           *)
(***************************************************************************)
\* mutant of ActiveFacts: the lookup forgets AND superseded_by IS NULL
ActiveFacts_AnySuperseded(fs, subject, predicate) ==
    {i \in 1..Len(fs) :
        /\ fs[i].subject = subject
        /\ fs[i].predicate = predicate
        /\ fs[i].pruned = FALSE}

\* SELECT ... WHERE subject = $1 AND predicate = $2 AND pruned = false
\*   AND superseded_by IS NULL: the rows LIMIT 1 may return
ActiveFacts(fs, subject, predicate) ==
    {i \in 1..Len(fs) :
        /\ fs[i].subject = subject
        /\ fs[i].predicate = predicate
        /\ fs[i].pruned = FALSE
        /\ fs[i].superseded_by = NULL}

insert_fact(fs, f, t) ==
    Append(fs,
        [kind |-> f.kind, subject |-> f.subject, predicate |-> f.predicate,
         object |-> f.object, confidence |-> f.confidence, salience |-> One,
         source_episodes |-> <<f.source_episode>>,
         superseded_by |-> NULL, flagged_for_review |-> FALSE,
         pruned |-> FALSE, retrieval_count |-> 0, last_retrieved_at |-> NULL,
         created_at |-> t, updated_at |-> t])

\* mutant of update_fact: the confidence bump is not capped by LEAST(.., 1.0)
update_fact_Unclamped(fs, id, f, t) ==
    [fs EXCEPT ![id].object = @ \o <<" ">> \o f.object,
               ![id].confidence = @ + 500,
               ![id].source_episodes = Append(@, f.source_episode),
               ![id].updated_at = t]

update_fact(fs, id, f, t) ==
    [fs EXCEPT ![id].object = @ \o <<" ">> \o f.object,
               ![id].confidence = Min(@ + 500, One),
               ![id].source_episodes = Append(@, f.source_episode),
               ![id].updated_at = t]

\* UPDATE semantic_facts SET superseded_by = $1 WHERE id = $2
set_superseded_by(fs, new_id, existing_id) ==
    [fs EXCEPT ![existing_id].superseded_by = new_id]

\* the rows after flag_conflict: the new fact inserted, both flagged
flag_conflict(fs, existing_id, f, t) ==
    LET new_id == Len(fs) + 1
    IN  [insert_fact(fs, f, t) EXCEPT ![existing_id].flagged_for_review = TRUE,
                                      ![new_id].flagged_for_review = TRUE]

\* mutant of write_to_review_inbox: every flagged conflict is written
write_to_review_inbox_Always(ib, existing_id, f, already_flagged) ==
    Append(ib, [subject |-> f.subject, predicate |-> f.predicate,
                existing_id |-> existing_id, confidence |-> f.confidence,
                source_episode |-> f.source_episode])

\* flag_conflict writes the inbox only if the existing row was not flagged
write_to_review_inbox(ib, existing_id, f, already_flagged) ==
    IF ~already_flagged
    THEN Append(ib, [subject |-> f.subject, predicate |-> f.predicate,
                     existing_id |-> existing_id, confidence |-> f.confidence,
                     source_episode |-> f.source_episode])
    ELSE ib

\* mutant of Resolution: compatible objects refine, also for a decision
Resolution_CompatibleFirst(existing_object, existing_confidence, f) ==
    LET objects_compatible == are_objects_compatible(existing_object, f.object)
        confidence_delta == f.confidence - existing_confidence
        is_decision == (f.kind = "decision")
    IN  IF objects_compatible THEN "Updated"
        ELSE IF is_decision THEN "Superseded"
        ELSE IF confidence_delta >= AutoSupersedeDelta THEN "Superseded"
        ELSE "Flagged"

\* mutant of Resolution: the delta test is strict, the boundary flags
Resolution_StrictDelta(existing_object, existing_confidence, f) ==
    LET objects_compatible == are_objects_compatible(existing_object, f.object)
        confidence_delta == f.confidence - existing_confidence
        is_decision == (f.kind = "decision")
    IN  IF objects_compatible /\ ~is_decision THEN "Updated"
        ELSE IF is_decision THEN "Superseded"
        ELSE IF confidence_delta > AutoSupersedeDelta THEN "Superseded"
        ELSE "Flagged"

\* upsert_fact's choice of resolution once an existing row was found
Resolution(existing_object, existing_confidence, f) ==
    LET objects_compatible == are_objects_compatible(existing_object, f.object)
        confidence_delta == f.confidence - existing_confidence
        is_decision == (f.kind = "decision")
    IN  IF objects_compatible /\ ~is_decision THEN "Updated"
        ELSE IF is_decision THEN "Superseded"
        ELSE IF confidence_delta >= AutoSupersedeDelta THEN "Superseded"
        ELSE "Flagged"

NoUpsert ==
    [result |-> "None", fact |-> NULL, existing |-> NULL, new |-> NULL,
     before |-> <<>>, inbox_before |-> 0]

\* what a search_memory call was given and what it returned: the JSON's
\* results, count and query or its status and error, or Err(e); queried
\* tells whether the call reached the SELECT on memory_vectors
SearchSeen(status, error, results, query, embed, queried) ==
    [status |-> status, error |-> error, results |-> results, count |-> Len(results),
     query |-> query, embed |-> embed, queried |-> queried]

NoSearch == SearchSeen("none", "", <<>>, <<>>, "none", FALSE)

\* upsert_fact with no existing active row: Created
UpsertCreate(f) ==
    /\ ActiveFacts(facts, f.subject, f.predicate) = {}
    /\ Len(facts) < MaxFacts
    /\ facts' = insert_fact(facts, f, now)
    /\ inbox' = inbox
    /\ lastUpsert' = [result |-> "Created", fact |-> f, existing |-> NULL,
                      new |-> Len(facts) + 1, before |-> facts,
                      inbox_before |-> Len(inbox)]

\* upsert_fact with an existing active row: LIMIT 1 without ORDER BY returns
\* any one of the matching rows
UpsertConflict(f) ==
    \E e \in ActiveFacts(facts, f.subject, f.predicate) :
        LET res == Resolution(facts[e].object, facts[e].confidence, f)
            already_flagged == facts[e].flagged_for_review
            new_id == Len(facts) + 1
        IN  /\ IF res = "Updated"
               THEN /\ Len(facts[e].object) + 1 + Len(f.object) <= MaxObjLen
                    /\ facts' = update_fact(facts, e, f, now)
                    /\ inbox' = inbox
               ELSE /\ Len(facts) < MaxFacts
                    /\ IF res = "Superseded"
                       THEN /\ facts' = set_superseded_by(insert_fact(facts, f, now), new_id, e)
                            /\ inbox' = inbox
                       ELSE /\ facts' = flag_conflict(facts, e, f, now)
                            /\ inbox' = write_to_review_inbox(inbox, e, f, already_flagged)
            /\ lastUpsert' = [result |-> res, fact |-> f, existing |-> e,
                              new |-> IF res = "Updated" THEN NULL ELSE new_id,
                              before |-> facts, inbox_before |-> Len(inbox)]

upsert_fact(f) ==
    /\ UpsertCreate(f) \/ UpsertConflict(f)
    /\ lastSearch' = NoSearch
    /\ UNCHANGED <<vectors, episodes, links, tasks, now, sweeps, serverVars, runtimeVars, coreVars, pipelineVars>>

(***************************************************************************)
(* decay.rs: the salience equation                                         *)
(***************************************************************************)
\* floor(One * exp(-t / (base_tau_days * ltp_multiplier^r))) with
\* base_tau_days = 7 and ltp_multiplier = 1.5: row r + 1, column t + 1,
\* for r = 0..7 retrievals and t = 0..63 days
DecayTable == <<
    <<10000, 8668, 7514, 6514, 5647, 4895, 4243, 3678, 3189, 2764, 2396, 2077, 1800, 1561, 1353, 1173, 1017, 881, 764, 662, 574, 497, 431, 374, 324, 281, 243, 211, 183, 158, 137, 119, 103, 89, 77, 67, 58, 50, 43, 38, 32, 28, 24, 21, 18, 16, 13, 12, 10, 9, 7, 6, 5, 5, 4, 3, 3, 2, 2, 2, 1, 1, 1, 1>>,
    <<10000, 9091, 8265, 7514, 6832, 6211, 5647, 5134, 4667, 4243, 3858, 3507, 3189, 2899, 2635, 2396, 2178, 1980, 1800, 1637, 1488, 1353, 1230, 1118, 1017, 924, 840, 764, 694, 631, 574, 522, 474, 431, 392, 356, 324, 294, 268, 243, 221, 201, 183, 166, 151, 137, 125, 113, 103, 94, 85, 77, 70, 64, 58, 53, 48, 43, 39, 36, 32, 29, 27, 24>>,
    <<10000, 9384, 8807, 8265, 7757, 7279, 6832, 6411, 6017, 5647, 5299, 4973, 4667, 4380, 4111, 3858, 3620, 3398, 3189, 2992, 2808, 2635, 2473, 2321, 2178, 2044, 1918, 1800, 1690, 1586, 1488, 1397, 1311, 1230, 1154, 1083, 1017, 954, 895, 840, 788, 740, 694, 652, 611, 574, 538, 505, 474, 445, 418, 392, 368, 345, 324, 304, 285, 268, 251, 236, 221, 207, 195, 183>>,
    <<10000, 9585, 9188, 8807, 8442, 8092, 7757, 7435, 7127, 6832, 6548, 6277, 6017, 5767, 5528, 5299, 5080, 4869, 4667, 4474, 4288, 4111, 3940, 3777, 3620, 3470, 3326, 3189, 3056, 2930, 2808, 2692, 2580, 2473, 2371, 2273, 2178, 2088, 2001, 1918, 1839, 1763, 1690, 1620, 1552, 1488, 1426, 1367, 1311, 1256, 1204, 1154, 1106, 1060, 1017, 974, 934, 895, 858, 823, 788, 756, 724, 694>>,
    <<10000, 9721, 9451, 9188, 8932, 8684, 8442, 8207, 7979, 7757, 7541, 7331, 7127, 6929, 6736, 6548, 6366, 6189, 6017, 5849, 5687, 5528, 5375, 5225, 5080, 4938, 4801, 4667, 4537, 4411, 4288, 4169, 4053, 3940, 3831, 3724, 3620, 3520, 3422, 3326, 3234, 3144, 3056, 2971, 2889, 2808, 2730, 2654, 2580, 2508, 2439, 2371, 2305, 2241, 2178, 2118, 2059, 2001, 1946, 1892, 1839, 1788, 1738, 1690>>,
    <<10000, 9813, 9630, 9451, 9275, 9102, 8932, 8766, 8602, 8442, 8285, 8130, 7979, 7830, 7684, 7541, 7400, 7262, 7127, 6994, 6864, 6736, 6610, 6487, 6366, 6248, 6131, 6017, 5905, 5795, 5687, 5581, 5477, 5375, 5274, 5176, 5080, 4985, 4892, 4801, 4711, 4624, 4537, 4453, 4370, 4288, 4208, 4130, 4053, 3977, 3903, 3831, 3759, 3689, 3620, 3553, 3487, 3422, 3358, 3295, 3234, 3174, 3114, 3056>>,
    <<10000, 9875, 9752, 9630, 9510, 9392, 9275, 9159, 9045, 8932, 8821, 8711, 8602, 8495, 8389, 8285, 8181, 8079, 7979, 7879, 7781, 7684, 7588, 7494, 7400, 7308, 7217, 7127, 7038, 6950, 6864, 6778, 6694, 6610, 6528, 6447, 6366, 6287, 6209, 6131, 6055, 5979, 5905, 5831, 5758, 5687, 5616, 5546, 5477, 5408, 5341, 5274, 5209, 5144, 5080, 5016, 4954, 4892, 4831, 4771, 4711, 4653, 4595, 4537>>,
    <<10000, 9916, 9834, 9752, 9671, 9590, 9510, 9431, 9352, 9275, 9197, 9121, 9045, 8970, 8895, 8821, 8747, 8675, 8602, 8531, 8460, 8389, 8319, 8250, 8181, 8113, 8046, 7979, 7912, 7846, 7781, 7716, 7652, 7588, 7525, 7462, 7400, 7339, 7278, 7217, 7157, 7097, 7038, 6980, 6921, 6864, 6807, 6750, 6694, 6638, 6583, 6528, 6474, 6420, 6366, 6313, 6261, 6209, 6157, 6106, 6055, 6004, 5954, 5905>>
    >>

\* (-t / tau_eff).exp(); beyond the table's last row the factor only grows
\* towards 1, and the model's counters stay below it
ExpDecay(t, retrieval_count) == DecayTable[Min(retrieval_count, 7) + 1][t + 1]

clamp01(x) == Max(0, Min(x, One))

calculate_salience(current_salience, retrieval_count, created_at, last_accessed, emotional_tone, t_now) ==
    LET last == IF last_accessed = NULL THEN created_at ELSE last_accessed
        t == t_now - last
        decay == ExpDecay(t, retrieval_count)
        days_alive == Max(t_now - created_at, 1)
        f == Min((retrieval_count * One) \div days_alive, One)
        e == clamp01(emotional_tone)
        s1 == (current_salience * decay) \div One
        s2 == (s1 * (One + (FrequencyWeight * f) \div One)) \div One
        s3 == (s2 * (One + (EmotionalWeight * e) \div One)) \div One
    IN  clamp01(s3)

Abs(x) == IF x < 0 THEN -x ELSE x

\* more than 0.001 apart
Changed(new, old) == Abs(new - old) > 10

(***************************************************************************)
(* decay.rs: the sweep of each table.  A sweep reads one batch of at most  *)
(* 500 rows (LIMIT 500 without ORDER BY) and updates each row of it.       *)
(***************************************************************************)
RECURSIVE Leaving(_, _)
\* the sets of k elements of S
Leaving(S, k) ==
    IF k = 0 THEN {{}}
    ELSE UNION {{R \cup {x} : R \in Leaving(S \ {x}, k - 1)} : x \in S}

\* the sets of rows LIMIT 500 may return of the rows S
Batches(S) ==
    IF Cardinality(S) <= 500 THEN {S}
    ELSE {S \ R : R \in Leaving(S, Cardinality(S) - 500)}

COALESCE(x, d) == IF x = NULL THEN d ELSE x

VectorBatchRows(vs) == {i \in 1..Len(vs) : vs[i].pruned = FALSE}

\* mutant of decay_vector_row: a sweep that rewrites importance restarts the
\* row's access counter
decay_vector_row_ResetCount(v, t_now) ==
    LET current_salience == COALESCE(v.importance, 5000)
        retrieval_count == COALESCE(v.access_count, 0)
        new_salience == calculate_salience(current_salience, retrieval_count,
                            v.created_at, v.last_accessed, 0, t_now)
    IN  IF v.expires_at # NULL /\ v.expires_at <= t_now
        THEN [v EXCEPT !.pruned = TRUE]
        ELSE IF new_salience < PruneThreshold
        THEN [v EXCEPT !.importance = new_salience, !.pruned = TRUE, !.access_count = 0]
        ELSE IF Changed(new_salience, current_salience)
        THEN [v EXCEPT !.importance = new_salience, !.access_count = 0]
        ELSE v

decay_vector_row(v, t_now) ==
    LET current_salience == COALESCE(v.importance, 5000)
        retrieval_count == COALESCE(v.access_count, 0)
        new_salience == calculate_salience(current_salience, retrieval_count,
                            v.created_at, v.last_accessed, 0, t_now)
    IN  IF v.expires_at # NULL /\ v.expires_at <= t_now
        THEN [v EXCEPT !.pruned = TRUE]
        ELSE IF new_salience < PruneThreshold
        THEN [v EXCEPT !.importance = new_salience, !.pruned = TRUE]
        ELSE IF Changed(new_salience, current_salience)
        THEN [v EXCEPT !.importance = new_salience]
        ELSE v

decay_memory_vectors(vs, B, t_now) ==
    [i \in 1..Len(vs) |-> IF i \in B THEN decay_vector_row(vs[i], t_now) ELSE vs[i]]

EpisodeBatchRows(es) == {i \in 1..Len(es) : es[i].pruned = FALSE}

\* mutant of decay_episode_row: the sweep writes the new salience but never
\* sets pruned
decay_episode_row_NoPrune(ep, t_now) ==
    LET new_salience == calculate_salience(ep.salience, ep.retrieval_count,
                            ep.created_at, ep.last_retrieved_at,
                            COALESCE(ep.emotional_tone, 0), t_now)
    IN  IF Changed(new_salience, ep.salience)
        THEN [ep EXCEPT !.salience = new_salience]
        ELSE ep

decay_episode_row(ep, t_now) ==
    LET new_salience == calculate_salience(ep.salience, ep.retrieval_count,
                            ep.created_at, ep.last_retrieved_at,
                            COALESCE(ep.emotional_tone, 0), t_now)
    IN  IF new_salience < PruneThreshold
        THEN [ep EXCEPT !.salience = new_salience, !.pruned = TRUE]
        ELSE IF Changed(new_salience, ep.salience)
        THEN [ep EXCEPT !.salience = new_salience]
        ELSE ep

decay_episodic_traces(es, B, t_now) ==
    [i \in 1..Len(es) |-> IF i \in B THEN decay_episode_row(es[i], t_now) ELSE es[i]]

FactBatchRows_AnySuperseded(fs) == {i \in 1..Len(fs) : fs[i].pruned = FALSE}

\* WHERE pruned = false AND superseded_by IS NULL
FactBatchRows(fs) ==
    {i \in 1..Len(fs) : fs[i].pruned = FALSE /\ fs[i].superseded_by = NULL}

decay_fact_row(fa, t_now) ==
    LET new_confidence == calculate_salience(fa.confidence, fa.retrieval_count,
                              fa.created_at, fa.last_retrieved_at, 0, t_now)
        new_salience == calculate_salience(fa.salience, fa.retrieval_count,
                            fa.created_at, fa.last_retrieved_at, 0, t_now)
    IN  IF new_confidence < PruneThreshold
        THEN [fa EXCEPT !.confidence = new_confidence, !.salience = new_salience,
                        !.pruned = TRUE]
        ELSE IF Changed(new_confidence, fa.confidence) \/ Changed(new_salience, fa.salience)
        THEN [fa EXCEPT !.confidence = new_confidence, !.salience = new_salience]
        ELSE fa

decay_semantic_facts(fs, B, t_now) ==
    [i \in 1..Len(fs) |-> IF i \in B THEN decay_fact_row(fs[i], t_now) ELSE fs[i]]

\* the table whose sweep returns Err, if any
SweepFailures == {"none", "vectors", "episodes", "facts"}

\* the rows of its batch B a table's sweep has updated when it returns: all
\* of them, or only some of them when its SELECT or one of its UPDATEs failed
SweptRows(B, fails) ==
    IF fails THEN {D \in SUBSET B : D # B \/ B = {}} ELSE {B}

\* decay_memory_vectors(..).await?, decay_episodic_traces(..).await? and
\* decay_semantic_facts(..).await? over the episodes es and the facts fs:
\* the first Err returns from run_decay_sweep
sweep_tables(es, fs, failed) ==
    /\ \E B \in Batches(VectorBatchRows(vectors)) :
       \E D \in SweptRows(B, failed = "vectors") :
           vectors' = decay_memory_vectors(vectors, D, now)
    /\ IF failed = "vectors" THEN episodes' = es
       ELSE \E B \in Batches(EpisodeBatchRows(es)) :
            \E D \in SweptRows(B, failed = "episodes") :
                episodes' = decay_episodic_traces(es, D, now)
    /\ IF failed \in {"vectors", "episodes"} THEN facts' = fs
       ELSE \E B \in Batches(FactBatchRows(fs)) :
            \E D \in SweptRows(B, failed = "facts") :
                facts' = decay_semantic_facts(fs, D, now)

\* what run_decay_sweep returns: Ok(report) only after the three tables
sweep_result(failed) == IF failed = "none" THEN "Ok" ELSE "Err"

\* run_decay_sweep: the three tables in turn
run_decay_sweep(failed) ==
    /\ sweeps < MaxSweeps
    /\ sweeps' = sweeps + 1
    /\ sweep_tables(episodes, facts, failed)
    /\ lastUpsert' = NoUpsert
    /\ lastSearch' = NoSearch
    /\ UNCHANGED <<inbox, links, tasks, now, serverVars, runtimeVars, coreVars, pipelineVars>>

(***************************************************************************)
(* decay.rs: record_retrieval, one UPDATE ... WHERE id = $1 per kind       *)
(***************************************************************************)
\* mutant of record_retrieval_episode: the boost is not capped by LEAST(.., 1.0)
record_retrieval_episode_Unclamped(es, id, t_now) ==
    IF id \in 1..Len(es)
    THEN [es EXCEPT ![id].retrieval_count = @ + 1,
                    ![id].last_retrieved_at = t_now,
                    ![id].salience = (@ * 11) \div 10]
    ELSE es

record_retrieval_episode(es, id, t_now) ==
    IF id \in 1..Len(es)
    THEN [es EXCEPT ![id].retrieval_count = @ + 1,
                    ![id].last_retrieved_at = t_now,
                    ![id].salience = Min((@ * 11) \div 10, One)]
    ELSE es

record_retrieval_fact(fs, id, t_now) ==
    IF id \in 1..Len(fs)
    THEN [fs EXCEPT ![id].retrieval_count = @ + 1,
                    ![id].last_retrieved_at = t_now,
                    ![id].confidence = Min(@ + 200, One),
                    ![id].salience = Min((@ * 11) \div 10, One)]
    ELSE fs

\* mutant of record_retrieval_vector: the UPDATE leaves access_count out
record_retrieval_vector_NoCount(vs, id, t_now) ==
    IF id \in 1..Len(vs)
    THEN [vs EXCEPT ![id].last_accessed = t_now,
                    ![id].importance = Min((COALESCE(@, 5000) * 105) \div 100, One)]
    ELSE vs

record_retrieval_vector(vs, id, t_now) ==
    IF id \in 1..Len(vs)
    THEN [vs EXCEPT ![id].access_count = COALESCE(@, 0) + 1,
                    ![id].last_accessed = t_now,
                    ![id].importance = Min((COALESCE(@, 5000) * 105) \div 100, One)]
    ELSE vs

\* record_retrieval(pool, memory_id, source_type): the UPDATE of the table
\* that source_type names; an id that matches no row updates nothing
record_retrieval(memory_id, source_type) ==
    CASE source_type = "episode" ->
             /\ episodes' = record_retrieval_episode(episodes, memory_id, now)
             /\ UNCHANGED <<facts, vectors>>
      [] source_type = "fact" ->
             /\ facts' = record_retrieval_fact(facts, memory_id, now)
             /\ UNCHANGED <<episodes, vectors>>
      [] OTHER ->
             /\ vectors' = record_retrieval_vector(vectors, memory_id, now)
             /\ UNCHANGED <<facts, episodes>>

(***************************************************************************)
(* Embeddings.  A text embeds to a unit vector of two fixed-point           *)
(* coordinates; vector <=> query is the cosine distance.                    *)
(***************************************************************************)
\* Option<T> of a column that holds text or a vector: None is SQL NULL
None == <<>>
Some(x) == <<x>>

E1 == <<10000, 0>>
E2 == <<6000, 8000>>
E3 == <<0, 10000>>

\* the backend's embedding of a text, when it produces one
EmbedOf(text) ==
    IF text = <<"a">> THEN E1
    ELSE IF text = <<"c">> THEN E3
    ELSE E2

\* the outcomes of EmbeddingBackend::embed / embed_query: Ok(Some(v)),
\* Ok(None) and Err(e)
EmbedOutcome == {"Some", "None", "Err"}

\* a <=> b for unit vectors: 1 - a . b
cosine_distance(a, b) == One - ((a[1] * b[1] + a[2] * b[2]) \div One)

Mul(a, b) == (a * b) \div One

RECURSIVE Orderings(_)
\* the sequences that hold every element of S once
Orderings(S) ==
    IF S = {} THEN {<<>>}
    ELSE UNION {{<<x>> \o p : p \in Orderings(S \ {x})} : x \in S}

RECURSIVE Descending(_, _)
\* the orderings of S by key, largest first: elements of equal key come in
\* any order
Descending(S, key) ==
    IF S = {} THEN {<<>>}
    ELSE UNION {{<<x>> \o p : p \in Descending(S \ {x}, key)} :
                   x \in {y \in S : \A z \in S : key[y] >= key[z]}}

Take(s, n) == SubSeq(s, 1, Min(n, Len(s)))

RECURSIVE Filter(_, _)
\* the elements of s that are in S, in order
Filter(s, S) ==
    IF s = <<>> THEN <<>>
    ELSE IF Head(s) \in S THEN <<Head(s)>> \o Filter(Tail(s), S)
    ELSE Filter(Tail(s), S)

(***************************************************************************)
(* graph.rs: spreading activation                                          *)
(***************************************************************************)
SpreadingStrength == 8500
Iterations == 3
AnchorTopKEpisodes == 10
AnchorTopKFacts == 10
WeightSimilarity == 5000
WeightActivation == 3000
WeightStructural == 2000
MAX_EDGES == 500

ActivationNode(id, cosine_score, spread_score, structural_score, final_score) ==
    [id |-> id, cosine_score |-> cosine_score, spread_score |-> spread_score,
     structural_score |-> structural_score, final_score |-> final_score]

\* SELECT ... FROM memory_graph_links WHERE from_id = ANY($1) OR to_id =
\* ANY($1) ORDER BY weight DESC LIMIT 500: any 500 of the heaviest
load_subgraph_edges(ls, node_ids) ==
    LET touching == {e \in ls : e.from_id \in node_ids \/ e.to_id \in node_ids}
    IN  IF Cardinality(touching) <= MAX_EDGES THEN {touching}
        ELSE {L \in SUBSET touching :
                 /\ Cardinality(L) = MAX_EDGES
                 /\ \A e \in L, d \in touching \ L : e.weight >= d.weight}

\* RetrievalConfig with the defaults: the part spreading reads
RetrievalConfig ==
    [spreading_strength |-> SpreadingStrength, iterations |-> Iterations,
     weight_similarity |-> WeightSimilarity, weight_activation |-> WeightActivation,
     weight_structural |-> WeightStructural]

RECURSIVE Contributions(_, _, _, _)
\* new_activation[to]: the sum over the edges into `to` of
\* node_activation * edge.weight * spreading_strength
Contributions(edges, activation, to, config) ==
    IF edges = {} THEN 0
    ELSE LET edge == CHOOSE e \in edges : TRUE
             contribution ==
                 IF edge.to_id = to
                 THEN Mul(Mul(activation[edge.from_id], edge.weight), config.spreading_strength)
                 ELSE 0
         IN  contribution + Contributions(edges \ {edge}, activation, to, config)

RECURSIVE Propagate(_, _, _, _)
\* the iterations: each computes new_activation from the activation it
\* started with and merges it afterwards.  A node absent from the map
\* counts as 0.
Propagate(activation, edges, n, config) ==
    IF n = 0 THEN activation
    ELSE LET new_activation ==
                 [id \in DOMAIN activation |-> Contributions(edges, activation, id, config)]
         IN  Propagate([id \in DOMAIN activation |-> activation[id] + new_activation[id]],
                       edges, n - 1, config)

\* mutant of result_nodes: the sources of the edges are result nodes too
result_nodes_WithSources(anchors, edges) ==
    {anchors[k].id : k \in DOMAIN anchors} \cup {e.to_id : e \in edges}
        \cup {e.from_id : e \in edges}

\* the keys of node_types: the anchors and the targets of the edges
result_nodes(anchors, edges) ==
    {anchors[k].id : k \in DOMAIN anchors} \cup {e.to_id : e \in edges}

\* spread_activation_core: the rankings it can return.  The result is built
\* from a hash map and sorted by a stable sort, so nodes of equal
\* final_score come in any order.  Without edges the anchors are returned
\* as they came.
spread_activation_core(anchors, edges, config) ==
    IF anchors = <<>> THEN {<<>>}
    ELSE IF edges = {}
    THEN {[k \in DOMAIN anchors |->
              ActivationNode(anchors[k].id, anchors[k].cosine_score, 0, 0,
                             Mul(config.weight_similarity, anchors[k].cosine_score))]}
    ELSE
    LET anchor_ids == {anchors[k].id : k \in DOMAIN anchors}
        node_types == result_nodes(anchors, edges)
        ids == node_types \cup {e.from_id : e \in edges}
        cosine == [id \in ids |->
            IF id \in anchor_ids
            THEN anchors[CHOOSE k \in DOMAIN anchors :
                            /\ anchors[k].id = id
                            /\ \A j \in 1..(k - 1) : anchors[j].id # id].cosine_score
            ELSE 0]
        activation == Propagate(cosine, edges, config.iterations, config)
        max_in_degree == Cardinality(edges)
        in_degree(id) == Cardinality({e \in edges : e.to_id = id})
        structural == [id \in ids |-> (in_degree(id) * One) \div max_in_degree]
        final == [id \in ids |->
                     Mul(config.weight_similarity, cosine[id])
                     + Mul(config.weight_activation, activation[id])
                     + Mul(config.weight_structural, structural[id])]
    IN  {[k \in DOMAIN p |->
             ActivationNode(p[k], cosine[p[k]], activation[p[k]], structural[p[k]],
                            final[p[k]])] :
         p \in Descending(node_types, final)}

\* spread_activation: load the anchors' subgraph, then run the core
spread_activation(ls, anchors) ==
    IF anchors = <<>> THEN {<<>>}
    ELSE UNION {spread_activation_core(anchors, edges, RetrievalConfig) :
                   edges \in load_subgraph_edges(ls, {anchors[k].id : k \in DOMAIN anchors})}

(***************************************************************************)
(* retrieve.rs: search_memory                                              *)
(***************************************************************************)
\* the outcomes of a statement or call that returns a Result
SqlOutcome == {"Ok", "Err"}

MAX_LIMIT == 20
DEFAULT_LIMIT == 5

RECURSIVE trim_start(_)
trim_start(s) ==
    IF s # <<>> /\ Head(s) = " " THEN trim_start(Tail(s)) ELSE s

RECURSIVE trim_end(_)
trim_end(s) ==
    IF s # <<>> /\ s[Len(s)] = " " THEN trim_end(SubSeq(s, 1, Len(s) - 1)) ELSE s

trim(s) == trim_end(trim_start(s))

\* mutant of clamp_limit: a limit above MAX_LIMIT is taken as it is
clamp_limit_NoMax(limit) ==
    IF limit = NULL THEN DEFAULT_LIMIT ELSE Max(1, limit)

\* limit.map(|l| l.clamp(1, MAX_LIMIT)).unwrap_or(DEFAULT_LIMIT)
clamp_limit(limit) ==
    IF limit = NULL THEN DEFAULT_LIMIT ELSE Max(1, Min(limit, MAX_LIMIT))

\* SELECT ... FROM memory_vectors WHERE vector IS NOT NULL
\* ORDER BY vector <=> $1 LIMIT $2: rows at equal distance come in any order
select_nearest(vs, query_vector, anchor_limit) ==
    LET cand == {i \in 1..Len(vs) : vs[i].vec # None}
        nearness == [i \in cand |-> 0 - cosine_distance(vs[i].vec[1], query_vector)]
    IN  {Take(p, anchor_limit) : p \in Descending(cand, nearness)}

\* the anchors and content_map built from the rows: a row missing content
\* or source is skipped
build_anchors(vs, rows, query_vector) ==
    LET kept == Filter(rows, {i \in 1..Len(vs) : vs[i].content # None /\ vs[i].source # None})
    IN  [k \in DOMAIN kept |->
            LET score == One - cosine_distance(vs[kept[k]].vec[1], query_vector)
            IN  ActivationNode(kept[k], score, 0, 0, score)]

\* final_nodes.take(limit).filter_map(content_map.get)
build_results(final_nodes, limit, content_ids) ==
    LET taken == Take(final_nodes, limit)
        keep == {k \in DOMAIN taken : taken[k].id \in content_ids}
        idx == Filter([k \in DOMAIN taken |-> k], keep)
    IN  [k \in DOMAIN idx |-> [id |-> taken[idx[k]].id, score |-> taken[idx[k]].final_score]]

\* retrievals of row id that spawned tasks still have to record
Pending(ts, id) ==
    Cardinality({<<i, k>> \in (1..Len(ts)) \X (1..Len(vectors)) :
                    k \in DOMAIN ts[i] /\ ts[i][k] = id})

SearchError(error, query, embed) == SearchSeen("error", error, <<>>, query, embed, FALSE)

\* no function applied on its own
NoApplied == [fn |-> "none"]

\* a caller that looks at the ranking behind the results of its searches
SearchCaller == [fn |-> "search caller"]

\* what such a caller sees of a search: the limit in force, whether it
\* spread, and final_nodes
RankSeen(limit, use_spreading, final_nodes) ==
    IF applied = NoApplied THEN applied
    ELSE [fn |-> "search_memory", limit |-> limit, use_spreading |-> use_spreading,
          final_nodes |-> final_nodes]

\* nothing to see of a search that returned an error
NoRank == IF applied = NoApplied THEN applied ELSE SearchCaller

\* mutant of embed_error: Ok(None) is taken for a vector
embed_error_NoneIsVector(outcome) ==
    IF outcome = "Err" THEN "Failed to embed query" ELSE ""

\* match backend.embed_query(query): the error search_memory returns for
\* Ok(None) and for Err(e); none for Ok(Some(v))
embed_error(outcome) ==
    IF outcome = "None" THEN "Embedding unavailable"
    ELSE IF outcome = "Err" THEN "Failed to embed query"
    ELSE ""

\* search_memory(query, limit, use_spreading, ..) with the backend's outcome
search_memory(query, limit, use_spreading) ==
    LET q == trim(query)
        lim == clamp_limit(limit)
        anchor_limit == IF use_spreading
                        THEN AnchorTopKEpisodes + AnchorTopKFacts ELSE lim
    IN  /\ IF q = <<>>
           THEN /\ lastSearch' = SearchError("Query cannot be empty", q, "none")
                /\ tasks' = tasks
                /\ applied' = NoRank
           ELSE \E outcome \in EmbedOutcome :
                  IF embed_error(outcome) # ""
                  THEN /\ lastSearch' = SearchError(embed_error(outcome), q, outcome)
                       /\ tasks' = tasks
                       /\ applied' = NoRank
                  ELSE
                  \E fetch_all \in SqlOutcome :
                  IF fetch_all = "Err"
                  THEN /\ lastSearch' = SearchSeen("Err", "database", <<>>, q, outcome, TRUE)
                       /\ tasks' = tasks
                       /\ applied' = NoRank
                  ELSE
                  \E rows \in select_nearest(vectors, EmbedOf(q), anchor_limit) :
                    LET anchors == build_anchors(vectors, rows, EmbedOf(q))
                        content_ids == {anchors[k].id : k \in DOMAIN anchors}
                        rankings == IF use_spreading /\ anchors # <<>>
                                    THEN spread_activation(links, anchors)
                                    ELSE {anchors}
                    IN  \E final_nodes \in rankings :
                          LET results == build_results(final_nodes, lim, content_ids)
                              result_ids == [k \in DOMAIN results |-> results[k].id]
                          IN  /\ \A k \in DOMAIN results :
                                     COALESCE(vectors[results[k].id].access_count, 0)
                                         + Pending(tasks, results[k].id) < MaxRetrievals
                              /\ lastSearch' = SearchSeen("ok", "", results, q, outcome, TRUE)
                              /\ applied' = RankSeen(lim, use_spreading, final_nodes)
                              \* tokio::spawn of the recording loop; a loop over
                              \* no ids ends at once
                              /\ tasks' = IF result_ids = <<>> THEN tasks
                                          ELSE Append(tasks, result_ids)
        /\ lastUpsert' = NoUpsert
        /\ UNCHANGED <<facts, inbox, vectors, episodes, links, now, sweeps, session_events, secs, lastCycle, cycles, runtimeVars, pipelineVars>>

\* a search request as a client sees it: the limit it asked for, the
\* transport, and over HTTP the status code and the keys of the JSON body
HttpAnswer(limit, code, body) == [via |-> "http", limit |-> limit, code |-> code, body |-> body]

SocketAnswer(limit) == [via |-> "socket", limit |-> limit, code |-> NULL, body |-> {}]

NoRequest == [via |-> "none", limit |-> NULL, code |-> NULL, body |-> {}]

\* router.rs / http.rs: handle_request_with_config wraps Ok(data) of
\* search_memory into EthosResponse::ok(data) and Err(e) into
\* EthosResponse::err; response_to_http and search_inner answer 200 with the
\* data and took_ms for the first and 500 for the second
response_to_http(search, limit) ==
    IF search.status = "Err" THEN HttpAnswer(limit, 500, {"error", "status"})
    ELSE IF search.status = "ok"
    THEN HttpAnswer(limit, 200, {"results", "query", "count", "took_ms"})
    ELSE HttpAnswer(limit, 200, {"status", "error", "took_ms"})

\* search_inner: POST /search with the request's query (None when the field
\* is missing), limit and use_spreading.  handle_search_request builds the
\* embedding client first, which may fail.
search_inner(query, limit, use_spreading) ==
    IF query = None \/ trim(query[1]) = <<>>
    THEN /\ lastRequest' = HttpAnswer(limit, 400, {"error", "status"})
         /\ lastSearch' = NoSearch
         /\ lastUpsert' = NoUpsert
         /\ UNCHANGED <<facts, inbox, vectors, episodes, links, tasks, now, sweeps, session_events, secs, lastCycle, cycles, runtimeVars, coreVars, pipelineVars>>
    ELSE \E create_client \in SqlOutcome :
           IF create_client = "Err"
           THEN /\ lastRequest' = HttpAnswer(limit, 500, {"error", "status"})
                /\ lastSearch' = NoSearch
                /\ lastUpsert' = NoUpsert
                /\ UNCHANGED <<facts, inbox, vectors, episodes, links, tasks, now, sweeps, session_events, secs, lastCycle, cycles, runtimeVars, coreVars, pipelineVars>>
           ELSE /\ search_memory(query[1], limit, use_spreading)
                /\ lastRequest' = response_to_http(lastSearch', limit)

\* one turn of a spawned recording loop: record_retrieval(id, "vector") for
\* its next id; the loops of different searches interleave
RecordTask ==
    \E i \in 1..Len(tasks) :
        /\ record_retrieval(Head(tasks[i]), "vector")
        /\ tasks' = IF Len(tasks[i]) = 1
                    THEN SubSeq(tasks, 1, i - 1) \o SubSeq(tasks, i + 1, Len(tasks))
                    ELSE [tasks EXCEPT ![i] = Tail(@)]
        /\ lastUpsert' = NoUpsert
        /\ lastSearch' = NoSearch
        /\ UNCHANGED <<inbox, links, now, sweeps, serverVars, runtimeVars, coreVars, pipelineVars>>

(***************************************************************************)
(* reembed.rs: run_reembed_tick                                            *)
(***************************************************************************)
\* mutant of fetch_null_rows: the WHERE clause forgets content IS NOT NULL
fetch_null_rows_AnyContent(vs) ==
    LET cand == {i \in 1..Len(vs) : vs[i].vec = None}
    IN  {Take(q, ReembedBatchSize) :
            q \in Descending(cand, [i \in cand |-> vs[i].created_at])}

\* the rows a tick fetches: vector IS NULL AND content IS NOT NULL, newest
\* first, LIMIT reembed_batch_size.  The rows here share one source_type, so
\* the ORDER BY's first key leaves them as they are.
fetch_null_rows(vs) ==
    LET cand == {i \in 1..Len(vs) : vs[i].vec = None /\ vs[i].content # None}
    IN  {Take(q, ReembedBatchSize) :
            q \in Descending(cand, [i \in cand |-> vs[i].created_at])}

\* what backend.embed may return: anything while the backend is degraded,
\* Some(v) once it is healthy
BackendOutcomes == IF backend = "healthy" THEN {"Some"} ELSE EmbedOutcome

before_return_Never(outcome) == DOMAIN outcome

\* the rows the loop handles before it returns: those before the first None
before_return(outcome) ==
    {j \in DOMAIN outcome : \A n \in DOMAIN outcome : outcome[n] = "None" => j < n}

\* a caller that keeps what run_reembed_tick returns; the worker's loop
\* logs it and drops it
TickCaller == [fn |-> "caller"]

\* what a tick did: its result (embedded, skipped), the rows it fetched and
\* what backend.embed returned, or would have returned, for each; every tick
\* turns the mark over
TickSeen(result, rows, outcome, embedded, skipped) ==
    [fn |-> "run_reembed_tick", result |-> result, rows |-> rows, outcome |-> outcome,
     embedded |-> embedded, skipped |-> skipped,
     mark |-> IF applied.fn = "run_reembed_tick" THEN 1 - applied.mark ELSE 0]

\* the rows are embedded in turn: Some(v) writes the vector, Err skips the
\* row, None stops the batch.  A fetched row decodes into NullVectorRow, whose
\* content is a String: a NULL content makes the fetch return Err and the
\* tick write nothing.
run_reembed_tick ==
    /\ \E rows \in fetch_null_rows(vectors) :
       \E outcome \in [1..Len(rows) -> BackendOutcomes] :
          LET stopped == {k \in 1..Len(rows) : outcome[k] = "None"}
              done == before_return(outcome)
              written == {rows[k] : k \in {j \in done : outcome[j] = "Some"}}
              embedded == Cardinality(written)
              failed == Cardinality({j \in done : outcome[j] = "Err"})
              skipped == IF stopped = {} THEN failed
                         ELSE failed + (Len(rows) - embedded)
          IN  IF \E k \in 1..Len(rows) : vectors[rows[k]].content = None
              THEN /\ vectors' = vectors
                   /\ applied' = IF applied = NoApplied THEN applied
                                 ELSE TickSeen("Err", rows, outcome, 0, 0)
              ELSE /\ vectors' = [i \in 1..Len(vectors) |->
                                     IF i \in written
                                     THEN [vectors[i] EXCEPT
                                              !.vec = Some(EmbedOf(vectors[i].content[1]))]
                                     ELSE vectors[i]]
                   /\ applied' = IF applied = NoApplied THEN applied
                                 ELSE TickSeen("Ok", rows, outcome, embedded, skipped)
    /\ lastUpsert' = NoUpsert
    /\ lastSearch' = NoSearch
    /\ UNCHANGED <<facts, inbox, episodes, links, tasks, now, sweeps, serverVars, runtimeVars, pipelineVars>>

(***************************************************************************)
(* consolidate.rs: the consolidation cycle.  The content of an episode is  *)
(* a sequence of words, \s+ separates two words and \w+ is one word.       *)
(* consolidated_at is NULL or the day of the cycle that set it.            *)
(***************************************************************************)
\* ConsolidationConfig::default
idle_threshold_seconds == 60
cpu_threshold_percent == 80
importance_threshold == 8000
retrieval_threshold == 5

\* str::to_lowercase of a word, as (?i) and ILIKE compare
lower_word(w) ==
    CASE w = "Decided" -> "decided"
      [] w = "Alice" -> "alice"
      [] OTHER -> to_lowercase_char(w)

lower_words(c) == [i \in 1..Len(c) |-> lower_word(c[i])]

\* \w+: a word without punctuation
is_word(w) == w \notin {".", "important:", "let''s", "we''ll", "let's", "we'll"}

\* the word sequences one of the ILIKE '%...%' keywords occurs in
PromotionKeywords ==
    { <<"decided">>, <<"let's", "go", "with">>, <<"the", "plan", "is">>,
      <<"we'll", "use">>, <<"going", "with">>, <<"prefer">>, <<"prefers">>,
      <<"love">>, <<"loves">>, <<"hate">>, <<"hates">>, <<"always">>,
      <<"never">>, <<"favorite">>, <<"remember", "this">>, <<"note", "that">>,
      <<"important:">> }

\* the WHERE clause of fetch_promotion_candidates
is_promotion_candidate(ep) ==
    /\ ep.consolidated_at = NULL
    /\ ep.pruned = FALSE
    /\ \/ ep.importance >= importance_threshold
       \/ ep.retrieval_count >= retrieval_threshold
       \/ \E k \in PromotionKeywords : contains(lower_words(ep.content), k)

\* ORDER BY importance DESC LIMIT 100: the orders the rows may come in.
\* Where no two candidates are equally important there is one order, and
\* its k-th row is the candidate with k - 1 more important ones.
fetch_promotion_candidates(es) ==
    UNION { IF \A i, j \in cand : i # j => importance[i] # importance[j]
            THEN { [k \in 1..Min(Cardinality(cand), 100) |->
                       CHOOSE i \in cand :
                           Cardinality({j \in cand : importance[j] > importance[i]}) = k - 1] }
            ELSE {Take(q, 100) : q \in Descending(cand, importance)}
            : cand \in { {i \in 1..Len(es) : is_promotion_candidate(es[i])} },
              importance \in { [i \in 1..Len(es) |-> es[i].importance] } }

\* Regex::captures of prefix\s+(\w+) for one of the prefixes: the word that
\* follows the leftmost match
capture_after(content, prefixes) ==
    LET c == lower_words(content)
        hits == {i \in 1..Len(c) :
                    \E p \in prefixes :
                        /\ i + Len(p) <= Len(c)
                        /\ SubSeq(c, i, i + Len(p) - 1) = p
                        /\ is_word(content[i + Len(p)])}
    IN  IF hits = {} THEN None
        ELSE LET i == CHOOSE h \in hits : \A g \in hits : h <= g
                 p == CHOOSE q \in prefixes :
                          /\ i + Len(q) <= Len(c)
                          /\ SubSeq(c, i, i + Len(q) - 1) = q
                          /\ is_word(content[i + Len(q)])
             IN  Some(content[i + Len(p)])

\* Regex::captures of (\w+)\s+verb\s+(\w+): subject and object of the
\* leftmost match
capture_around(content, verbs) ==
    LET c == lower_words(content)
        hits == {i \in 1..Len(c) :
                    /\ i + 2 <= Len(c)
                    /\ is_word(content[i])
                    /\ c[i + 1] \in verbs
                    /\ is_word(content[i + 2])}
    IN  IF hits = {} THEN None
        ELSE LET i == CHOOSE h \in hits : \A g \in hits : h <= g
             IN  Some(<<content[i], content[i + 2]>>)

\* [A-Z][a-z]+
is_capitalized(w) == w \in {"Alice", "Decided"}

\* extract_subject: the first capitalized word
extract_subject(content) ==
    LET caps == {i \in 1..Len(content) : is_capitalized(content[i])}
    IN  IF caps = {} THEN None
        ELSE Some(content[CHOOSE h \in caps : \A g \in caps : h <= g])

unwrap_or(x, d) == IF x = None THEN d ELSE x[1]

\* the patterns in the order extract_fact_from_episode tries them
DecisionPatterns ==
    << [prefixes |-> { <<"decided", "use">>, <<"decided", "to", "use">>,
                       <<"decided", "go", "with">>, <<"decided", "to", "go", "with">>,
                       <<"decided", "switch", "to">>, <<"decided", "to", "switch", "to">> },
        predicate |-> "uses"],
       [prefixes |-> { <<"let''s", "go", "with">> }, predicate |-> "uses"],
       [prefixes |-> { <<"we''ll", "use">> }, predicate |-> "uses"],
       [prefixes |-> { <<"going", "with">> }, predicate |-> "uses"] >>

PreferencePatterns ==
    << [verbs |-> {"love", "loves"}, predicate |-> "loves"],
       [verbs |-> {"hate", "hates"}, predicate |-> "hates"],
       [verbs |-> {"always"}, predicate |-> "always"],
       [verbs |-> {"never"}, predicate |-> "never"] >>

\* extract_fact_from_episode: Some(fact) or None
extract_fact_from_episode(ep, id) ==
    LET content == ep.content
        decisions == {k \in DOMAIN DecisionPatterns :
                         capture_after(content, DecisionPatterns[k].prefixes) # None}
        preferences == {k \in DOMAIN PreferencePatterns :
                           capture_around(content, PreferencePatterns[k].verbs) # None}
    IN  IF decisions # {}
        THEN LET k == CHOOSE h \in decisions : \A g \in decisions : h <= g
                 object == capture_after(content, DecisionPatterns[k].prefixes)[1]
             IN  Some([Fact("decision", DecisionPatterns[k].predicate, <<object>>, 9000, id)
                         EXCEPT !.subject = unwrap_or(extract_subject(content), "team")])
        ELSE IF preferences # {}
        THEN LET k == CHOOSE h \in preferences : \A g \in preferences : h <= g
                 caps == capture_around(content, PreferencePatterns[k].verbs)[1]
             IN  Some([Fact("preference", PreferencePatterns[k].predicate, <<caps[2]>>, 8000, id)
                         EXCEPT !.subject = caps[1]])
        ELSE IF ep.importance >= 8000
        THEN Some([Fact("fact", "contains", Take(content, 50) \o <<"...">>, 7000, id)
                     EXCEPT !.subject = "context"])
        ELSE None

\* upsert_fact as a function of the tables: the rows and inbox it may leave
\* and the FactUpsertResult it returns
UpsertResults(fs, ib, f, t) ==
    LET active == ActiveFacts(fs, f.subject, f.predicate)
        new_id == Len(fs) + 1
    IN  IF active = {}
        THEN { [facts |-> insert_fact(fs, f, t), inbox |-> ib, result |-> "Created"] }
        ELSE { LET res == Resolution(fs[e].object, fs[e].confidence, f)
               IN  CASE res = "Updated" ->
                          [facts |-> update_fact(fs, e, f, t), inbox |-> ib, result |-> res]
                     [] res = "Superseded" ->
                          [facts |-> set_superseded_by(insert_fact(fs, f, t), new_id, e),
                           inbox |-> ib, result |-> res]
                     [] OTHER ->
                          [facts |-> flag_conflict(fs, e, f, t),
                           inbox |-> write_to_review_inbox(ib, e, f, fs[e].flagged_for_review),
                           result |-> res]
               : e \in active }

\* ConsolidationReport::default
EmptyReport ==
    [episodes_scanned |-> 0, episodes_promoted |-> 0, facts_created |-> 0,
     facts_updated |-> 0, facts_superseded |-> 0, facts_flagged |-> 0]

count_result(report, result) ==
    CASE result = "Created" -> [report EXCEPT !.facts_created = @ + 1]
      [] result = "Updated" -> [report EXCEPT !.facts_updated = @ + 1]
      [] result = "Superseded" -> [report EXCEPT !.facts_superseded = @ + 1]
      [] result = "Flagged" -> [report EXCEPT !.facts_flagged = @ + 1]
      [] OTHER -> report

\* mutant of promote_candidates: a failed upsert still pushes the episode
RECURSIVE promote_candidates_PushFailed(_, _, _)
promote_candidates_PushFailed(candidates, es, st) ==
    UNION {
        IF extracted = {} THEN {st}
        ELSE LET first == CHOOSE k \in extracted : \A j \in extracted : k <= j
                 id == candidates[first]
                 fact == extract_fact_from_episode(es[id], id)
                 rest == SubSeq(candidates, first + 1, Len(candidates))
             IN  UNION (
                      { promote_candidates_PushFailed(rest, es,
                            [st EXCEPT !.failed = @ \cup {id},
                                       !.promoted_ids = Append(@, id)]) }
                      \cup
                      { promote_candidates_PushFailed(rest, es,
                            [st EXCEPT !.facts = r.facts, !.inbox = r.inbox,
                                       !.promoted_ids = Append(@, id),
                                       !.report = count_result(
                                           [st.report EXCEPT !.episodes_promoted = @ + 1],
                                           r.result)])
                        : r \in UpsertResults(st.facts, st.inbox, fact[1], st.t) } )
        : extracted \in
            { {k \in DOMAIN candidates :
                  extract_fact_from_episode(es[candidates[k]], candidates[k]) # None} } }

\* the loop of run_consolidation_cycle over the candidates: a candidate
\* without a fact is passed over, each upsert returns Ok or Err, an Err is
\* logged and the loop goes on
RECURSIVE promote_candidates(_, _, _)
promote_candidates(candidates, es, st) ==
    UNION {
        IF extracted = {} THEN {st}
        ELSE LET first == CHOOSE k \in extracted : \A j \in extracted : k <= j
                 id == candidates[first]
                 fact == extract_fact_from_episode(es[id], id)
                 rest == SubSeq(candidates, first + 1, Len(candidates))
             IN  UNION (
                      { promote_candidates(rest, es,
                            [st EXCEPT !.failed = @ \cup {id}]) }
                      \cup
                      { promote_candidates(rest, es,
                            [st EXCEPT !.facts = r.facts, !.inbox = r.inbox,
                                       !.promoted_ids = Append(@, id),
                                       !.report = count_result(
                                           [st.report EXCEPT !.episodes_promoted = @ + 1],
                                           r.result)])
                        : r \in UpsertResults(st.facts, st.inbox, fact[1], st.t) } )
        : extracted \in
            { {k \in DOMAIN candidates :
                  extract_fact_from_episode(es[candidates[k]], candidates[k]) # None} } }

\* UPDATE episodic_traces SET consolidated_at = NOW() WHERE id IN (...)
mark_consolidated(es, ids, t) ==
    [i \in 1..Len(es) |->
        IF \E k \in DOMAIN ids : ids[k] = i
        THEN [es[i] EXCEPT !.consolidated_at = t]
        ELSE es[i]]

\* run_consolidation_cycle: the outcomes it may have on the tables
run_consolidation_cycle(fs, ib, es, t) ==
    LET failed_fetch ==
            { [result |-> "Err", facts |-> fs, inbox |-> ib, episodes |-> es,
               report |-> EmptyReport, candidates |-> <<>>,
               promoted_ids |-> <<>>, failed |-> {}] }
        fetched ==
            UNION { { [st EXCEPT !.candidates = candidates]
                      : st \in promote_candidates(candidates, es,
                            [result |-> "Ok", facts |-> fs, inbox |-> ib, episodes |-> es,
                             report |-> [EmptyReport EXCEPT
                                            !.episodes_scanned = Len(candidates)],
                             candidates |-> <<>>, promoted_ids |-> <<>>,
                             failed |-> {}, t |-> t]) }
                    : candidates \in fetch_promotion_candidates(es) }
        marked ==
            UNION { IF st.promoted_ids = <<>>
                    THEN {st}
                    ELSE { [st EXCEPT !.episodes = mark_consolidated(es, st.promoted_ids, t)],
                           [st EXCEPT !.result = "Err"] }
                    : st \in fetched }
    IN  failed_fetch \cup
        { [result |-> st.result, facts |-> st.facts, inbox |-> st.inbox,
           episodes |-> st.episodes, report |-> st.report,
           candidates |-> st.candidates, promoted_ids |-> st.promoted_ids,
           failed |-> st.failed] : st \in marked }

\* the 1-minute load average of /proc/loadavg in hundredths, None if the
\* file cannot be read or parsed
LoadReadings == {None, Some(80), Some(81)}

\* num_cpus::get()
cpu_count == 1

\* Utc::now() in seconds
clock == now * 86400 + secs

\* SELECT COUNT(*) FROM session_events WHERE created_at > $1
recent_count(evs, cutoff) ==
    Cardinality({i \in 1..Len(evs) : evs[i].created_at > cutoff})

\* mutant of is_system_idle: a failed probe counts as no recent event
is_system_idle_ProbeErrIdle(probe, load) ==
    LET cutoff == clock - idle_threshold_seconds
    IN  IF probe = "Ok" /\ recent_count(session_events, cutoff) > 0 THEN FALSE
        ELSE IF load # None /\ load[1] > cpu_threshold_percent * cpu_count THEN FALSE
        ELSE TRUE

\* is_system_idle: probe is the outcome of the session_events query, load
\* the reading of /proc/loadavg; (load_val / cpu_count) * 100.0 is above
\* the threshold iff load_val in hundredths is above threshold * cpu_count
is_system_idle(probe, load) ==
    LET cutoff == clock - idle_threshold_seconds
    IN  IF probe = "Err" THEN FALSE
        ELSE IF recent_count(session_events, cutoff) > 0 THEN FALSE
        ELSE IF load # None /\ load[1] > cpu_threshold_percent * cpu_count THEN FALSE
        ELSE TRUE

NoCycle ==
    [trigger |-> "none", ran |-> FALSE, probe |-> "none", load |-> None,
     recent |-> 0, outcome |-> <<>>, before |-> <<>>, sweeps_before |-> 0,
     sweep |-> "none", failed |-> "none", sweep_before |-> "none"]

\* what a tick or trigger saw: the probe outcome, the load reading, the
\* number of session events within idle_threshold_seconds, the episodes and
\* the number of sweeps before it, the table its sweep failed at and what
\* its sweep and the sweep of the tick or trigger before it returned
\* ("none": no sweep)
CycleSeen(trigger, ran, probe, load, outcome, failed) ==
    [trigger |-> trigger, ran |-> ran, probe |-> probe, load |-> load,
     recent |-> recent_count(session_events, clock - idle_threshold_seconds),
     outcome |-> outcome, before |-> episodes, sweeps_before |-> sweeps,
     sweep |-> IF failed = "no sweep" THEN "none" ELSE sweep_result(failed),
     failed |-> IF failed = "no sweep" THEN "none" ELSE failed,
     sweep_before |-> lastCycle.sweep]

\* the tables after the cycle with outcome o, no sweep
CycleOnly(o) ==
    /\ facts' = o.facts
    /\ inbox' = o.inbox
    /\ episodes' = o.episodes
    /\ UNCHANGED <<vectors, sweeps>>

\* the tables after the cycle with outcome o and the sweep that follows it
CycleThenSweep(o, failed) ==
    /\ sweeps' = sweeps + 1
    /\ inbox' = o.inbox
    /\ sweep_tables(o.episodes, o.facts, failed)

sweep_follows_AnyCycle(o) == TRUE

\* match run_consolidation_cycle(..).await { Ok(report) => run_decay_sweep }
sweep_follows(o) == o.result = "Ok"

\* one tick of run_consolidation_loop: the cycle if the system is idle, and
\* the decay sweep after a cycle that returned Ok; an Err of the sweep is
\* logged
ConsolidationTick(probe, load, failed) ==
    /\ IF is_system_idle(probe, load)
       THEN /\ cycles < MaxCycles
            /\ cycles' = cycles + 1
            /\ \E o \in run_consolidation_cycle(facts, inbox, episodes, now) :
                   IF sweep_follows(o)
                   THEN /\ CycleThenSweep(o, failed)
                        /\ lastCycle' = CycleSeen("tick", TRUE, probe, load, o, failed)
                   ELSE /\ CycleOnly(o)
                        /\ failed = "none"
                        /\ lastCycle' = CycleSeen("tick", TRUE, probe, load, o, "no sweep")
       ELSE /\ failed = "none"
            /\ lastCycle' = CycleSeen("tick", FALSE, probe, load, <<>>, "no sweep")
            /\ UNCHANGED <<facts, inbox, episodes, vectors, sweeps, cycles>>
    /\ lastUpsert' = NoUpsert
    /\ lastSearch' = NoSearch
    /\ UNCHANGED <<links, tasks, now, session_events, secs, lastRequest, runtimeVars, coreVars, pipelineVars>>

\* trigger_consolidation: the cycle at once, without the idle check
trigger_consolidation ==
    /\ cycles < MaxCycles
    /\ cycles' = cycles + 1
    /\ \E o \in run_consolidation_cycle(facts, inbox, episodes, now) :
           /\ CycleOnly(o)
           /\ lastCycle' = CycleSeen("manual", TRUE, "none", None, o, "no sweep")
    /\ lastUpsert' = NoUpsert
    /\ lastSearch' = NoSearch
    /\ UNCHANGED <<links, tasks, now, session_events, secs, lastRequest, runtimeVars, coreVars, pipelineVars>>

(***************************************************************************)
(* Steps                                                                   *)
(***************************************************************************)
UpsertFact == \E f \in ExtractedFact : upsert_fact(f)

\* a caller records the retrieval of one fact
RecordFact ==
    \E id \in 1..Len(facts) :
        /\ facts[id].retrieval_count < MaxCount
        /\ record_retrieval(id, "fact")
        /\ lastUpsert' = NoUpsert
        /\ lastSearch' = NoSearch
        /\ UNCHANGED <<inbox, links, tasks, now, sweeps, serverVars, runtimeVars, coreVars, pipelineVars>>

\* a caller records the retrieval of one episode
RecordEpisode ==
    \E id \in 1..Len(episodes) :
        /\ episodes[id].retrieval_count < MaxCount
        /\ record_retrieval(id, "episode")
        /\ lastUpsert' = NoUpsert
        /\ lastSearch' = NoSearch
        /\ UNCHANGED <<inbox, links, tasks, now, sweeps, serverVars, runtimeVars, coreVars, pipelineVars>>

\* the texts a client searches for
Queries == {<<" ">>, <<" ", "c">>}

\* the limits a client asks for; NULL is no limit given
Limits == {NULL, 0, 25}

\* EthosRequest::Search over the Unix socket
SearchMemory ==
    \E query \in Queries, limit \in Limits, use_spreading \in BOOLEAN :
        /\ search_memory(query, limit, use_spreading)
        /\ lastRequest' = NoRequest

ReembedTick == run_reembed_tick

\* the facts a consolidation cycle promotes while memories are searched
PromotedFact == { Fact("fact", "uses", <<"p">>, 9800, 2) }

PromoteFact == \E f \in PromotedFact : upsert_fact(f)

\* a sweep whose statements all succeed
DecaySweep == run_decay_sweep("none")

Tick ==
    /\ now < MaxNow * DaysPerTick
    /\ now' = now + DaysPerTick
    /\ lastUpsert' = NoUpsert
    /\ lastSearch' = NoSearch
    /\ UNCHANGED <<facts, inbox, vectors, episodes, links, tasks, sweeps, serverVars, runtimeVars, coreVars, pipelineVars>>

(***************************************************************************)
(* main.rs: the tasks of the server process and the broadcast channel of   *)
(* the shutdown signal.  A receiver sees only what is sent after it        *)
(* subscribed.  When main returns the runtime is dropped and every task    *)
(* still running is dropped with it.                                       *)
(***************************************************************************)
Tasks == {"main", "ctrl_c", "consolidation", "reembed", "http", "unix"}

\* the long-lived loops
Loops == {"consolidation", "reembed", "http", "unix"}

\* the tasks holding a broadcast::Receiver; run_reembed_worker takes none
Receivers == {"consolidation", "http", "unix"}

Running(t) == proc[t] \in {"waiting", "sending"}

\* main.rs:73: the task that awaits Ctrl+C is spawned
MainSpawnCtrlC ==
    /\ proc["main"] = "start"
    /\ proc' = [proc EXCEPT !["main"] = "spawn_consolidation", !["ctrl_c"] = "waiting"]
    /\ UNCHANGED <<rx, storeVars, serverVars, pipelineVars, coreVars>>

\* main.rs:86-97: tx.subscribe(), then the consolidation loop is spawned
MainSpawnConsolidation ==
    /\ proc["main"] = "spawn_consolidation"
    /\ rx' = [rx EXCEPT !["consolidation"] = "empty"]
    /\ proc' = [proc EXCEPT !["main"] = "create_backend", !["consolidation"] = "waiting"]
    /\ UNCHANGED <<storeVars, serverVars, pipelineVars, coreVars>>

\* main.rs:100-115: the re-embed worker is spawned if the backend was created
MainSpawnReembed(created) ==
    /\ proc["main"] = "create_backend"
    /\ proc' = [proc EXCEPT !["main"] = "spawn_http",
                            !["reembed"] = IF created THEN "waiting" ELSE "unspawned"]
    /\ UNCHANGED <<rx, storeVars, serverVars, pipelineVars, coreVars>>

\* main.rs:118-129: tx.subscribe(), then the HTTP server is spawned, if enabled
MainSpawnHttp(enabled) ==
    /\ proc["main"] = "spawn_http"
    /\ rx' = [rx EXCEPT !["http"] = IF enabled THEN "empty" ELSE "none"]
    /\ proc' = [proc EXCEPT !["main"] = "run_unix",
                            !["http"] = IF enabled THEN "waiting" ELSE "unspawned"]
    /\ UNCHANGED <<storeVars, serverVars, pipelineVars, coreVars>>

\* main.rs:132: tx.subscribe(), then main awaits run_unix_server
MainRunUnix ==
    /\ proc["main"] = "run_unix"
    /\ rx' = [rx EXCEPT !["unix"] = "empty"]
    /\ proc' = [proc EXCEPT !["main"] = "await_unix", !["unix"] = "waiting"]
    /\ UNCHANGED <<storeVars, serverVars, pipelineVars, coreVars>>

\* the user presses Ctrl+C: ctrl_c().await completes
CtrlC ==
    /\ proc["ctrl_c"] = "waiting"
    /\ proc' = [proc EXCEPT !["ctrl_c"] = "sending"]
    /\ UNCHANGED <<rx, storeVars, serverVars, pipelineVars, coreVars>>

\* Sender::send: the value reaches the receivers subscribed at this moment
broadcast_send(receiver) == IF receiver = "empty" THEN "signalled" ELSE receiver

\* main.rs:78: shutdown_tx.send(())
SendShutdown ==
    /\ proc["ctrl_c"] = "sending"
    /\ rx' = [r \in Receivers |-> broadcast_send(rx[r])]
    /\ proc' = [proc EXCEPT !["ctrl_c"] = "returned"]
    /\ UNCHANGED <<storeVars, serverVars, pipelineVars, coreVars>>

\* the shutdown.recv() arm of a select!, or the graceful-shutdown future
\* of the HTTP server: the loop ends
LoopExit(t) ==
    /\ proc[t] = "waiting"
    /\ rx[t] = "signalled"
    /\ proc' = [proc EXCEPT ![t] = "returned"]
    /\ UNCHANGED <<rx, storeVars, serverVars, pipelineVars, coreVars>>

\* main.rs:132-134: run_unix_server returned, main returns and the runtime
\* drops the tasks that still run
MainReturn ==
    /\ proc["main"] = "await_unix"
    /\ proc["unix"] = "returned"
    /\ proc' = [t \in Tasks |->
                   IF t = "main" THEN "returned"
                   ELSE IF Running(t) THEN "aborted"
                   ELSE proc[t]]
    /\ UNCHANGED <<rx, storeVars, serverVars, pipelineVars, coreVars>>

\* the background loop's ticker fired
ConsolidationLoopTick ==
    \E probe \in SqlOutcome, load \in LoadReadings, failed \in SweepFailures :
        ConsolidationTick(probe, load, failed)

\* a client sent EthosRequest::Consolidate
ManualTrigger == trigger_consolidation

\* seconds pass
Elapse ==
    /\ secs < MaxElapse * SecondsPerStep
    /\ secs' = secs + SecondsPerStep
    /\ lastCycle' = NoCycle
    /\ lastUpsert' = NoUpsert
    /\ lastSearch' = NoSearch
    /\ UNCHANGED <<facts, inbox, vectors, episodes, links, tasks, now, sweeps,
                   session_events, cycles, lastRequest, runtimeVars, coreVars, pipelineVars>>


\* no embed call and no ingest in the last step

NoCall == [state |-> "idle", client |-> "none", method |-> "none",
           responses |-> <<>>, result |-> <<>>]

NoIngest == [outcome |-> "none", payload |-> <<>>, failure |-> "none",
             events_before |-> <<>>, vectors_before |-> <<>>]

\* the pipeline at rest, the backend not answering reliably
InitPipeline ==
    /\ backend = "degraded"
    /\ embed_tasks = {}
    /\ call = NoCall
    /\ lastIngest = NoIngest
    /\ applied = NoApplied

\* the server before any request, tick or signal
InitServer ==
    /\ session_events = <<>>
    /\ secs = 0
    /\ lastCycle = NoCycle
    /\ cycles = 0
    /\ lastRequest = NoRequest
    /\ proc = [t \in Tasks |-> "unspawned"]
    /\ rx = [r \in Receivers |-> "none"]
    /\ InitPipeline

(***************************************************************************)
(* The fact store on its own: upserts, sweeps and the clock                 *)
(***************************************************************************)
InitFacts ==
    /\ facts = <<>>
    /\ inbox = <<>>
    /\ lastUpsert = NoUpsert
    /\ vectors = <<>>
    /\ episodes = <<>>
    /\ links = {}
    /\ tasks = <<>>
    /\ lastSearch = NoSearch
    /\ now = 0
    /\ sweeps = 0
    /\ InitServer

NextFacts == UpsertFact \/ DecaySweep \/ Tick

SpecFacts == InitFacts /\ [][NextFacts]_vars

(***************************************************************************)
(* The whole store: ingested and embedded memories, episodes, graph links, *)
(* searches with their recording tasks, retrievals, promotions, re-embed   *)
(* ticks, sweeps and the clock                                             *)
(***************************************************************************)
MemoryVector(content, vec, importance, access_count) ==
    [content |-> Some(content), source |-> Some("user"), vec |-> vec, importance |-> importance,
     access_count |-> access_count, last_accessed |-> NULL, created_at |-> 0,
     expires_at |-> NULL, pruned |-> FALSE]

EpisodicTrace(salience, emotional_tone) ==
    [salience |-> salience, emotional_tone |-> emotional_tone, retrieval_count |-> 0,
     last_retrieved_at |-> NULL, created_at |-> 0, pruned |-> FALSE,
     content |-> <<>>, importance |-> 5000, consolidated_at |-> NULL]

GraphLink(from_id, to_id, to_type, weight) ==
    [from_id |-> from_id, to_id |-> to_id, to_type |-> to_type, weight |-> weight]

\* the id of an episode that links point to; it is no row of memory_vectors
EpisodeNode == 9

Init ==
    /\ facts = <<>>
    /\ inbox = <<>>
    /\ lastUpsert = NoUpsert
    /\ vectors = << MemoryVector(<<"c">>, None, 9800, NULL) >>
    /\ episodes = << EpisodicTrace(9500, One) >>
    /\ links = { GraphLink(1, EpisodeNode, "episode", 5000) }
    /\ tasks = <<>>
    /\ lastSearch = NoSearch
    /\ now = 0
    /\ sweeps = 0
    /\ InitServer

Next ==
    \/ SearchMemory
    \/ RecordTask
    \/ RecordEpisode
    \/ RecordFact
    \/ PromoteFact
    \/ ReembedTick
    \/ DecaySweep
    \/ Tick

Spec == Init /\ [][Next]_vars

(***************************************************************************)
(* Searches and their recording tasks under a fair scheduler: a spawned    *)
(* task that can run is eventually run                                     *)
(***************************************************************************)
InitLive ==
    /\ facts = <<>>
    /\ inbox = <<>>
    /\ lastUpsert = NoUpsert
    /\ vectors = << MemoryVector(<<"a">>, Some(E1), NULL, NULL),
                    MemoryVector(<<"b">>, Some(E2), 1000, 0) >>
    /\ episodes = <<>>
    /\ links = { GraphLink(1, 2, "user", 5000), GraphLink(2, EpisodeNode, "episode", 8000) }
    /\ tasks = <<>>
    /\ lastSearch = NoSearch
    /\ now = 0
    /\ sweeps = 0
    /\ InitServer

NextLive ==
    \/ SearchMemory
    \/ RecordTask
    \/ DecaySweep
    \/ Tick

SpecLive == InitLive /\ [][NextLive]_vars /\ WF_vars(RecordTask)

(***************************************************************************)
(* ingest.rs, embedder.rs: ingest and the embedding task it spawns         *)
(***************************************************************************)
SessionEvent(role, content, created_at) ==
    [role |-> role, content |-> content, created_at |-> created_at]

\* payload["content"], payload["source"] and metadata.author, each a string
\* or absent
Payload(content, source, author) ==
    [content |-> content, source |-> source, author |-> author]

Payloads ==
    { Payload(Some(<<"c">>), Some("user"), None),
      Payload(Some(<<"c">>), Some("cli"), Some("Alice")),
      Payload(None, Some("user"), None),
      Payload(Some(<<"c">>), None, None) }

\* the statement of the transaction that returns Err, if any
IngestFailures == {"none", "begin", "insert_event", "insert_vector", "commit"}

\* match source { ... }
role_of(source) ==
    IF source \in {"user", "assistant", "system", "tool"} THEN source ELSE "user"

\* mutant of ingest_rows: the two INSERTs run on the pool, outside a
\* transaction, so the session event stays when the second INSERT fails
ingest_rows_NoTransaction(evs, vs, payload, failure, committed) ==
    LET event == SessionEvent(role_of(payload.source[1]), payload.content[1], clock)
        row == [MemoryVector(payload.content[1], None, NULL, NULL) EXCEPT
                   !.source = Some(unwrap_or(payload.author, payload.source[1])),
                   !.created_at = now]
    IN  CASE failure \in {"begin", "insert_event"} ->
                 [result |-> "Err", session_events |-> evs, vectors |-> vs]
          [] failure = "insert_vector" ->
                 [result |-> "Err", session_events |-> Append(evs, event), vectors |-> vs]
          [] failure = "commit" ->
                 [result |-> "Err", session_events |-> Append(evs, event),
                  vectors |-> Append(vs, row)]
          [] OTHER ->
                 [result |-> "Ok", session_events |-> Append(evs, event),
                  vectors |-> Append(vs, row)]

\* the transaction of ingest_payload_with_embedding: pool.begin(), the two
\* INSERTs, tx.commit().  An Err before the commit drops tx, which rolls the
\* transaction back; when the commit itself returns Err the transaction is
\* committed or not.
ingest_rows(evs, vs, payload, failure, committed) ==
    LET event == SessionEvent(role_of(payload.source[1]), payload.content[1], clock)
        row == [MemoryVector(payload.content[1], None, NULL, NULL) EXCEPT
                   !.source = Some(unwrap_or(payload.author, payload.source[1])),
                   !.created_at = now]
        written == failure = "none" \/ (failure = "commit" /\ committed)
    IN  [result |-> IF failure = "none" THEN "Ok" ELSE "Err",
         session_events |-> IF written THEN Append(evs, event) ELSE evs,
         vectors |-> IF written THEN Append(vs, row) ELSE vs]

\* ingest_payload_with_embedding: a payload without content or source is
\* rejected before the transaction begins
ingest_payload_with_embedding(payload, with_config, failure, committed) ==
    /\ Len(vectors) < MaxVectors
    /\ IF payload.content = None \/ payload.source = None
       THEN /\ lastIngest' = [outcome |-> "Err", payload |-> payload,
                              failure |-> "none",
                              events_before |-> session_events,
                              vectors_before |-> vectors]
            /\ UNCHANGED <<session_events, vectors, embed_tasks>>
       ELSE LET r == ingest_rows(session_events, vectors, payload, failure, committed)
            IN  /\ session_events' = r.session_events
                /\ vectors' = r.vectors
                /\ embed_tasks' = IF r.result = "Ok" /\ with_config
                                  THEN embed_tasks \cup {Len(r.vectors)}
                                  ELSE embed_tasks
                /\ lastIngest' = [outcome |-> r.result, payload |-> payload,
                                  failure |-> failure,
                                  events_before |-> session_events,
                                  vectors_before |-> vectors]
    /\ lastUpsert' = NoUpsert
    /\ lastSearch' = NoSearch
    /\ UNCHANGED <<facts, inbox, episodes, links, tasks, now, sweeps,
                   secs, lastCycle, cycles, lastRequest, runtimeVars, coreVars, backend, call>>

\* the task of spawn_embed_task for memory id: create the backend, then
\* embed_by_id; whatever it returns is logged
embed_task(id, created, outcome) ==
    /\ id \in embed_tasks
    /\ embed_tasks' = embed_tasks \ {id}
    /\ vectors' = IF /\ created
                     /\ vectors[id].vec = None
                     /\ vectors[id].content # None
                     /\ outcome = "Some"
                  THEN [vectors EXCEPT ![id].vec = Some(EmbedOf(vectors[id].content[1]))]
                  ELSE vectors
    /\ lastIngest' = NoIngest
    /\ lastUpsert' = NoUpsert
    /\ lastSearch' = NoSearch
    /\ UNCHANGED <<facts, inbox, episodes, links, tasks, now, sweeps,
                   serverVars, runtimeVars, coreVars, backend, call>>

Ingest ==
    \E payload \in Payloads, with_config \in BOOLEAN,
       failure \in IngestFailures, committed \in BOOLEAN :
        ingest_payload_with_embedding(payload, with_config, failure, committed)

EmbedTask ==
    \E id \in embed_tasks, created \in BOOLEAN, outcome \in BackendOutcomes :
        embed_task(id, created, outcome)

\* from here on the backend returns Some(v) for every embed call
BackendRecovers ==
    /\ backend = "degraded"
    /\ backend' = "healthy"
    /\ lastIngest' = NoIngest
    /\ UNCHANGED <<storeVars, serverVars, runtimeVars, coreVars, embed_tasks, call>>

(***************************************************************************)
(* Ingests, their embedding tasks and the re-embed worker while the        *)
(* backend is degraded and after it has recovered.  The worker's ticker    *)
(* keeps firing.                                                           *)
(***************************************************************************)
InitPipelineStore ==
    /\ facts = <<>>
    /\ inbox = <<>>
    /\ lastUpsert = NoUpsert
    /\ vectors = << MemoryVector(<<"a">>, None, NULL, NULL),
                    [MemoryVector(<<"b">>, None, NULL, NULL) EXCEPT !.content = None],
                    MemoryVector(<<"c">>, None, NULL, NULL) >>
    /\ episodes = <<>>
    /\ links = {}
    /\ tasks = <<>>
    /\ lastSearch = NoSearch
    /\ now = 0
    /\ sweeps = 0
    /\ InitServer

NextPipeline ==
    \/ Ingest
    \/ EmbedTask
    \/ ReembedTick
    \/ BackendRecovers

SpecPipeline == InitPipelineStore /\ [][NextPipeline]_vars /\ WF_vars(ReembedTick)

(***************************************************************************)
(* embeddings.rs: the cloud client with its retries and the fallback       *)
(* client around it.  Retry::spawn runs the action once and then once more *)
(* for every delay the strategy yields, whatever the error was.            *)
(***************************************************************************)
\* EmbeddingConfig::new
max_retries == 3

GEMINI_DIMENSIONS == 768

\* what one POST may come back with: no response at all, a status with an
\* error body, or 200 with a vector of some length
HttpResponse(kind, status, len) == [kind |-> kind, status |-> status, len |-> len]

HttpResponses ==
    { HttpResponse("transport", 0, 0),
      HttpResponse("status", 429, 0),
      HttpResponse("status", 500, 0),
      HttpResponse("status", 400, 0),
      HttpResponse("status", 200, GEMINI_DIMENSIONS),
      HttpResponse("status", 200, 3) }

\* Result<Vec<f32>, EmbeddingError>: a vector of len values, or an error
\* with its fields
OkVec(len) == [ok |-> TRUE, error |-> "none", fields |-> <<len>>]

ErrOf(error, fields) == [ok |-> FALSE, error |-> error, fields |-> fields]

\* embed_once: one POST; the code of an Api error is taken from the status
\* (the code sends the one of the error body when the body carries one)
embed_once(response) ==
    IF response.kind = "transport" THEN ErrOf("Http", <<>>)
    ELSE IF ~(response.status >= 200 /\ response.status < 300)
    THEN ErrOf("Api", <<response.status>>)
    ELSE IF response.len # GEMINI_DIMENSIONS
    THEN ErrOf("InvalidDimensions", <<GEMINI_DIMENSIONS, response.len>>)
    ELSE OkVec(response.len)

\* Retry::spawn with a strategy of take(max_retries) delays: after the n-th
\* failed attempt there is another one iff the strategy still yields a delay
retry_again(failed_attempts) == failed_attempts <= max_retries

\* embed_with_task: what it returns for the result Retry::spawn ended with
embed_with_task(last) ==
    IF last.ok THEN last
    ELSE ErrOf("RetryExhausted", <<max_retries>>)

\* mutant of backend_result: the fallback client hands the error on
backend_result_Propagate(client, inner) ==
    IF inner.ok THEN [kind |-> "Some", value |-> inner]
    ELSE [kind |-> "Err", value |-> inner]

\* EmbeddingBackend::embed / embed_query: Ok(Some(v)), Ok(None) or Err(e) of
\* the cloud client and of the fallback client for the inner result
backend_result(client, inner) ==
    IF inner.ok THEN [kind |-> "Some", value |-> inner]
    ELSE IF client = "fallback" THEN [kind |-> "None", value |-> inner]
    ELSE [kind |-> "Err", value |-> inner]

\* GeminiEmbeddingClient::new / FallbackEmbeddingClient::new, then a call of
\* embed or embed_query on the client; the previous call, if any, has returned
embed_start(client, method, api_key, built) ==
    /\ call.state \in {"idle", "done"}
    /\ IF api_key = ""
       THEN call' = [state |-> "done", client |-> client, method |-> "new",
                     responses |-> <<>>,
                     result |-> [kind |-> "Err", value |-> ErrOf("MissingApiKey", <<>>)]]
       ELSE IF ~built
       THEN call' = [state |-> "done", client |-> client, method |-> "new",
                     responses |-> <<>>,
                     result |-> [kind |-> "Err", value |-> ErrOf("Http", <<>>)]]
       ELSE call' = [state |-> "running", client |-> client, method |-> method,
                     responses |-> <<>>, result |-> <<>>]
    /\ UNCHANGED <<storeVars, serverVars, runtimeVars, coreVars, backend, embed_tasks, lastIngest>>

\* one attempt of the call in progress and what Retry::spawn does with it
embed_attempt(response) ==
    /\ call.state = "running"
    /\ LET r == embed_once(response)
           responses == Append(call.responses, response)
       IN  IF ~r.ok /\ retry_again(Len(responses))
           THEN call' = [call EXCEPT !.responses = responses]
           ELSE call' = [call EXCEPT !.state = "done", !.responses = responses,
                                     !.result = backend_result(call.client,
                                                               embed_with_task(r))]
    /\ UNCHANGED <<storeVars, serverVars, runtimeVars, coreVars, backend, embed_tasks, lastIngest>>

EmbedStart ==
    \E client \in {"gemini", "fallback"}, method \in {"embed", "embed_query"},
       api_key \in {"", "key"}, built \in BOOLEAN :
        embed_start(client, method, api_key, built)

EmbedAttempt == \E response \in HttpResponses : embed_attempt(response)

InitEmbed ==
    /\ facts = <<>>
    /\ inbox = <<>>
    /\ lastUpsert = NoUpsert
    /\ vectors = <<>>
    /\ episodes = <<>>
    /\ links = {}
    /\ tasks = <<>>
    /\ lastSearch = NoSearch
    /\ now = 0
    /\ sweeps = 0
    /\ InitServer

NextEmbed ==
    \/ EmbedStart
    \/ EmbedAttempt

SpecEmbed == InitEmbed /\ [][NextEmbed]_vars

(***************************************************************************)
(* Searches over the socket and over HTTP on a store with more embedded    *)
(* rows than the default limit, each at its own distance from the query    *)
(***************************************************************************)
\* the query field of a POST /search body: missing, blank or a text
HttpQueries == {None, Some(<<" ">>), Some(<<"c", " ">>)}

\* the limits the requests ask for; NULL is no limit given
SearchLimits == {NULL, 0, 25}

HttpSearch ==
    \E query \in HttpQueries, limit \in SearchLimits, use_spreading \in BOOLEAN :
        search_inner(query, limit, use_spreading)

SocketSearch ==
    \E query \in Queries, limit \in SearchLimits, use_spreading \in BOOLEAN :
        /\ search_memory(query, limit, use_spreading)
        /\ lastRequest' = SocketAnswer(limit)

\* the embeddings of the stored rows: unit vectors, each further from the
\* embedding of the query "c" than the one before
Directions ==
   <<
      <<0, 10000>>, <<2431, 9700>>, <<3411, 9400>>, <<4146, 9100>>,
      <<4749, 8800>>, <<5267, 8500>>, <<5723, 8200>>, <<6131, 7900>>,
      <<6499, 7600>>, <<6834, 7300>>, <<7141, 7000>>, <<7423, 6700>>,
      <<7683, 6400>>, <<7924, 6100>>, <<8146, 5800>>, <<8351, 5500>>,
      <<8541, 5200>>, <<8717, 4900>>, <<8879, 4600>>, <<9028, 4300>>,
      <<9165, 4000>>
   >>

InitSearch ==
    /\ facts = <<>>
    /\ inbox = <<>>
    /\ lastUpsert = NoUpsert
    /\ vectors = [i \in DOMAIN Directions |->
                      MemoryVector(<<"m">>, Some(Directions[i]), NULL, MaxRetrievals - 1)]
    /\ episodes = <<>>
    /\ links = { GraphLink(2, 1, "user", 5000) }
    /\ tasks = <<>>
    /\ lastSearch = NoSearch
    /\ now = 0
    /\ sweeps = 0
    /\ InitServer

NextSearch ==
    \/ HttpSearch
    \/ SocketSearch
    \/ RecordTask

SpecSearch == InitSearch /\ [][NextSearch]_vars

(***************************************************************************)
(* spread_activation_core on its own: anchors as search_memory builds them *)
(* (distinct ids, nearest first), a few edges among the anchors and other  *)
(* nodes, the default configuration and one that spreads nothing           *)
(***************************************************************************)
MaxNode == 3
MaxAnchors == 2
MaxEdges == 2

Anchor(id, cosine_score) == ActivationNode(id, cosine_score, 0, 0, cosine_score)

AnchorInputs ==
    {a \in UNION {[1..n -> {Anchor(id, c) : id \in 1..MaxAnchors, c \in {9000, 5000}}] :
                     n \in 0..MaxAnchors} :
        \A i, j \in DOMAIN a :
            i < j => a[i].id # a[j].id /\ a[i].cosine_score >= a[j].cosine_score}

EdgeInputs ==
    {E \in SUBSET {GraphLink(f, t, "fact", w) :
                      f \in 1..MaxNode, t \in 1..MaxNode, w \in {5000, One}} :
        /\ Cardinality(E) <= MaxEdges
        /\ \A e \in E : e.from_id # e.to_id
        /\ \A e, d \in E : (e.from_id = d.from_id /\ e.to_id = d.to_id) => e = d}

ConfigInputs ==
    { RetrievalConfig,
      [RetrievalConfig EXCEPT !.spreading_strength = 0, !.weight_structural = 0] }

\* a caller has its arguments ready
DrawSpread ==
    /\ applied = NoApplied
    /\ \E anchors \in AnchorInputs, edges \in EdgeInputs, config \in ConfigInputs :
          applied' = [fn |-> "drawn", anchors |-> anchors, edges |-> edges,
                      config |-> config]
    /\ UNCHANGED <<storeVars, serverVars, runtimeVars, pipelineVars>>

\* spread_activation_core(anchors, edges, config) returns
ApplySpread ==
    /\ applied.fn = "drawn"
    /\ \E nodes \in spread_activation_core(applied.anchors, applied.edges, applied.config) :
          applied' = [fn |-> "spread_activation_core", anchors |-> applied.anchors,
                      edges |-> applied.edges, config |-> applied.config,
                      nodes |-> nodes]
    /\ UNCHANGED <<storeVars, serverVars, runtimeVars, pipelineVars>>

NextSpread ==
    \/ DrawSpread
    \/ ApplySpread

SpecSpread == InitEmbed /\ [][NextSpread]_vars

(***************************************************************************)
(* The consolidation loop and the manual trigger over a store of episodes  *)
(***************************************************************************)
Episode(content, importance, retrieval_count) ==
    [EpisodicTrace(One, 0) EXCEPT !.content = content, !.importance = importance,
                                  !.retrieval_count = retrieval_count]

\* two decisions about the same subject, an important episode without a
\* pattern, an often retrieved episode no fact is extracted from; a client
\* has just sent a message
InitCycle ==
    /\ facts = <<>>
    /\ inbox = <<>>
    /\ lastUpsert = NoUpsert
    /\ vectors = << MemoryVector(<<"c">>, None, 9800, NULL) >>
    /\ episodes = << Episode(<<"we", "Decided", "to", "use", "R">>, 5000, 0),
                     Episode(<<"Decided", "use", "p">>, 5000, 0),
                     Episode(<<"x">>, 9000, 0),
                     Episode(<<"y">>, 1000, 5) >>
    /\ links = {}
    /\ tasks = <<>>
    /\ lastSearch = NoSearch
    /\ now = 0
    /\ sweeps = 0
    /\ session_events = << SessionEvent("user", <<"c">>, 0) >>
    /\ secs = 0
    /\ lastCycle = NoCycle
    /\ cycles = 0
    /\ lastRequest = NoRequest
    /\ proc = [t \in Tasks |-> "unspawned"]
    /\ rx = [r \in Receivers |-> "none"]
    /\ InitPipeline

NextCycle ==
    \/ ConsolidationLoopTick
    \/ ManualTrigger
    \/ Elapse

SpecCycle == InitCycle /\ [][NextCycle]_vars

(***************************************************************************)
(* The server process from its start: main spawns the tasks, the loops     *)
(* tick, the user may press Ctrl+C at any moment.  The runtime runs every  *)
(* task that can take a step, and a select! does not pass over a ready     *)
(* shutdown arm forever.                                                   *)
(***************************************************************************)
MainStep ==
    \/ MainSpawnCtrlC
    \/ MainSpawnConsolidation
    \/ \E created \in BOOLEAN : MainSpawnReembed(created)
    \/ \E enabled \in BOOLEAN : MainSpawnHttp(enabled)
    \/ MainRunUnix

\* the ticker arm of the consolidation loop
ConsolidationWorkerTick == proc["consolidation"] = "waiting" /\ ConsolidationLoopTick

\* ticker.tick().await of the re-embed worker, then run_reembed_tick
ReembedWorkerTick == proc["reembed"] = "waiting" /\ ReembedTick

ShutdownExit == \E t \in Receivers : LoopExit(t)

InitShutdown ==
    /\ facts = <<>>
    /\ inbox = <<>>
    /\ lastUpsert = NoUpsert
    /\ vectors = << MemoryVector(<<"c">>, None, 9800, NULL) >>
    /\ episodes = << Episode(<<"Decided", "use", "p">>, 5000, 0) >>
    /\ links = {}
    /\ tasks = <<>>
    /\ lastSearch = NoSearch
    /\ now = 0
    /\ sweeps = 0
    /\ session_events = <<>>
    /\ secs = 0
    /\ lastCycle = NoCycle
    /\ cycles = 0
    /\ lastRequest = NoRequest
    /\ proc = [t \in Tasks |-> IF t = "main" THEN "start" ELSE "unspawned"]
    /\ rx = [r \in Receivers |-> "none"]
    /\ InitPipeline

NextShutdown ==
    \/ MainStep
    \/ CtrlC
    \/ SendShutdown
    \/ ConsolidationWorkerTick
    \/ ReembedWorkerTick
    \/ ShutdownExit
    \/ MainReturn

SpecShutdown ==
    /\ InitShutdown
    /\ [][NextShutdown]_vars
    /\ WF_vars(MainStep)
    /\ WF_vars(SendShutdown)
    /\ \A t \in Receivers : SF_vars(LoopExit(t))
    /\ WF_vars(MainReturn)

(***************************************************************************)
(* Properties of the fact store                                            *)
(***************************************************************************)
IsActive(fa) == fa.pruned = FALSE /\ fa.superseded_by = NULL

SameKey(a, b) == a.subject = b.subject /\ a.predicate = b.predicate

Upserted == lastUpsert.result # "None"

\* the last step was an upsert_fact that found an existing active row
Conflicted == Upserted /\ lastUpsert.existing # NULL

OldRow == lastUpsert.before[lastUpsert.existing]

\* rows other than the existing one are as before the upsert
OthersUnchanged ==
    \A i \in 1..Len(lastUpsert.before) :
        i # lastUpsert.existing => facts[i] = lastUpsert.before[i]

\* the upsert appended exactly the extracted fact as a new row
InsertedNew ==
    /\ Len(facts) = Len(lastUpsert.before) + 1
    /\ lastUpsert.new = Len(facts)
    /\ LET n == facts[Len(facts)]
           f == lastUpsert.fact
       IN  /\ n.kind = f.kind /\ n.subject = f.subject /\ n.predicate = f.predicate
           /\ n.object = f.object /\ n.confidence = f.confidence
           /\ n.source_episodes = <<f.source_episode>>
           /\ n.superseded_by = NULL /\ n.pruned = FALSE

\* C1: after any sequence of upsert_fact calls at most one fact per
\* (subject, predicate) has pruned = false and superseded_by IS NULL.
C1_AtMostOneActivePerKey ==
    \A i, j \in 1..Len(facts) :
        (IsActive(facts[i]) /\ IsActive(facts[j]) /\ SameKey(facts[i], facts[j]))
            => i = j

\* C3: when an active fact with the same key exists and the extracted fact
\* is a decision, upsert_fact supersedes: the new fact is inserted and the
\* old fact's superseded_by is the new id, whatever the objects and the
\* confidences are.
C3_DecisionAlwaysSupersedes ==
    (Conflicted /\ lastUpsert.fact.kind = "decision") =>
        /\ lastUpsert.result = "Superseded"
        /\ InsertedNew
        /\ facts[lastUpsert.existing] =
               [OldRow EXCEPT !.superseded_by = lastUpsert.new]
        /\ OthersUnchanged

\* a decision superseded a compatible fact of higher confidence
C3_Witness ==
    /\ Conflicted
    /\ lastUpsert.fact.kind = "decision"
    /\ lastUpsert.result = "Superseded"
    /\ are_objects_compatible(OldRow.object, lastUpsert.fact.object)
    /\ lastUpsert.fact.confidence < OldRow.confidence

Incompatible ==
    /\ Conflicted
    /\ lastUpsert.fact.kind # "decision"
    /\ ~are_objects_compatible(OldRow.object, lastUpsert.fact.object)

\* C4: with an existing active fact, a non-decision and incompatible
\* objects, upsert_fact supersedes if and only if new.confidence -
\* old.confidence >= auto_supersede_confidence_delta (the boundary
\* included), and otherwise flags the conflict.
C4_SupersedeIffDeltaReached ==
    Incompatible =>
        LET delta == lastUpsert.fact.confidence - OldRow.confidence
        IN  /\ lastUpsert.result \in {"Superseded", "Flagged"}
            /\ (lastUpsert.result = "Superseded") <=> (delta >= AutoSupersedeDelta)
            /\ InsertedNew
            /\ lastUpsert.result = "Superseded" =>
                   /\ facts[lastUpsert.existing].superseded_by = lastUpsert.new
                   /\ ~facts[lastUpsert.new].flagged_for_review
            /\ lastUpsert.result = "Flagged" =>
                   /\ facts[lastUpsert.existing].superseded_by = NULL
                   /\ facts[lastUpsert.existing].flagged_for_review
                   /\ facts[lastUpsert.new].flagged_for_review

\* a non-decision superseded an incompatible fact at exactly the boundary
C4_Witness ==
    /\ Incompatible
    /\ lastUpsert.result = "Superseded"
    /\ lastUpsert.fact.confidence - OldRow.confidence = AutoSupersedeDelta

\* C5: with an existing active fact, a non-decision and compatible objects,
\* upsert_fact refines in place: no row is inserted, the object gets the new
\* object appended after a space, confidence becomes min(1, old + 0.05) and
\* the source episode is appended to source_episodes.
C5_RefineInPlace ==
    (Conflicted /\ lastUpsert.fact.kind # "decision"
        /\ are_objects_compatible(OldRow.object, lastUpsert.fact.object)) =>
        /\ lastUpsert.result = "Updated"
        /\ Len(facts) = Len(lastUpsert.before)
        /\ LET n == facts[lastUpsert.existing]
           IN  /\ n.object = OldRow.object \o <<" ">> \o lastUpsert.fact.object
               /\ n.confidence = Min(One, OldRow.confidence + 500)
               /\ n.source_episodes =
                      Append(OldRow.source_episodes, lastUpsert.fact.source_episode)
               /\ n.superseded_by = NULL
               /\ n.flagged_for_review = OldRow.flagged_for_review
        /\ OthersUnchanged
        /\ Len(inbox) = lastUpsert.inbox_before

\* a refinement whose confidence bump was capped at 1
C5_Witness ==
    /\ Conflicted
    /\ lastUpsert.result = "Updated"
    /\ OldRow.confidence + 500 > One
    /\ facts[lastUpsert.existing].confidence = One
    /\ Len(facts[lastUpsert.existing].source_episodes) = 2

\* C6: a Flag resolution inserts the new fact, flags both the existing and
\* the new fact, and appends a review-inbox entry if and only if the
\* existing fact was not already flagged.
C6_FlagWritesInboxOnce ==
    (Upserted /\ lastUpsert.result = "Flagged") =>
        /\ InsertedNew
        /\ facts[lastUpsert.existing] = [OldRow EXCEPT !.flagged_for_review = TRUE]
        /\ facts[lastUpsert.new].flagged_for_review
        /\ OthersUnchanged
        /\ IF OldRow.flagged_for_review
           THEN Len(inbox) = lastUpsert.inbox_before
           ELSE /\ Len(inbox) = lastUpsert.inbox_before + 1
                /\ inbox[Len(inbox)].existing_id = lastUpsert.existing
                /\ inbox[Len(inbox)].source_episode = lastUpsert.fact.source_episode

\* a second conflict against an already flagged fact left the inbox alone
C6_Witness ==
    /\ Upserted
    /\ lastUpsert.result = "Flagged"
    /\ OldRow.flagged_for_review
    /\ Len(inbox) = 1
    /\ lastUpsert.inbox_before = 1

\* C7: upsert_fact never takes a superseded or pruned fact as its conflict
\* target, and an upsert leaves every superseded fact as it was.
C7_SupersededNeverTargeted ==
    Upserted =>
        /\ lastUpsert.existing # NULL => IsActive(OldRow)
        /\ \A i \in 1..Len(lastUpsert.before) :
               lastUpsert.before[i].superseded_by # NULL =>
                   facts[i] = lastUpsert.before[i]

\* an upsert changed the active fact of a key that also has a superseded
\* fact and a pruned fact
C7_Witness ==
    /\ Conflicted
    /\ lastUpsert.result = "Updated"
    /\ \E i \in 1..Len(lastUpsert.before) :
           /\ lastUpsert.before[i].superseded_by # NULL
           /\ SameKey(lastUpsert.before[i], lastUpsert.fact)
    /\ \E i \in 1..Len(lastUpsert.before) :
           /\ lastUpsert.before[i].pruned
           /\ SameKey(lastUpsert.before[i], lastUpsert.fact)

(***************************************************************************)
(* Properties of retrieval, decay and long-term potentiation               *)
(***************************************************************************)
\* C2: search_memory never returns a memory item whose pruned flag is true:
\* once a decay sweep has pruned an item, no later search, with or without
\* spreading, has it among its results.
C2_SearchNeverReturnsPruned ==
    \A k \in DOMAIN lastSearch.results :
        ~vectors[lastSearch.results[k].id].pruned

InUnit(x) == 0 <= x /\ x <= One

\* C8: after any sequence of record_retrieval calls, decay sweeps and fact
\* upserts, every stored salience, confidence and importance value is
\* within [0, 1].
C8_ScoresInUnitInterval ==
    /\ \A i \in DOMAIN facts : InUnit(facts[i].confidence) /\ InUnit(facts[i].salience)
    /\ \A i \in DOMAIN episodes : InUnit(episodes[i].salience)
    /\ \A i \in DOMAIN vectors :
           vectors[i].importance # NULL => InUnit(vectors[i].importance)

\* in each table a retrieval's boost was capped at 1, the fact after a
\* refinement that was capped too, and a sweep has run since
C8_Witness ==
    /\ sweeps > 0
    /\ \E i \in DOMAIN facts :
           /\ facts[i].confidence = One
           /\ facts[i].retrieval_count = 1
           /\ Len(facts[i].source_episodes) = 2
    /\ \E i \in DOMAIN episodes :
           episodes[i].salience = One /\ episodes[i].retrieval_count = 1
    /\ \E i \in DOMAIN vectors :
           vectors[i].importance = One /\ vectors[i].access_count = 1

\* C9: across record_retrieval calls, decay sweeps, promotions and re-embed
\* ticks each item's retrieval counter (retrieval_count, access_count for a
\* memory vector) and its last-retrieved timestamp never decrease.  NULL, a
\* counter or a timestamp not yet written, counts as below every value.
C9_CountersNeverDecrease ==
    [][ /\ \A i \in DOMAIN facts :
               /\ facts'[i].retrieval_count >= facts[i].retrieval_count
               /\ facts'[i].last_retrieved_at >= facts[i].last_retrieved_at
        /\ \A i \in DOMAIN episodes :
               /\ episodes'[i].retrieval_count >= episodes[i].retrieval_count
               /\ episodes'[i].last_retrieved_at >= episodes[i].last_retrieved_at
        /\ \A i \in DOMAIN vectors :
               /\ vectors'[i].access_count >= vectors[i].access_count
               /\ vectors'[i].last_accessed >= vectors[i].last_accessed ]_vars

\* a memory vector was retrieved a second time after the clock advanced and a
\* sweep ran, next to a retrieved episode and a retrieved fact
C9_Witness ==
    /\ sweeps > 0
    /\ now = DaysPerTick
    /\ \E i \in DOMAIN vectors :
           vectors[i].access_count = 2 /\ vectors[i].last_accessed = DaysPerTick
    /\ \E i \in DOMAIN episodes : episodes[i].retrieval_count = 1
    /\ \E i \in DOMAIN facts : facts[i].retrieval_count = 1

\* the search of the last step returned memory vector x
Returned(x) ==
    /\ lastSearch.status = "ok"
    /\ \E k \in DOMAIN lastSearch.results : lastSearch.results[k].id = x

AccessCount(x) == COALESCE(vectors[x].access_count, 0)

\* the rows of memory_vectors while searches run, and the values a
\* last_accessed column takes
SearchedVectors == 1..2

AccessTimes == {NULL} \cup {k * DaysPerTick : k \in 0..MaxNow}

SweepStep == sweeps' = sweeps + 1

\* what a sweep may leave behind for a row that is not pruned afterwards:
\* old is the stored score before, new the stored score after, S the score
\* the sweep recomputes; a row the sweep does not read keeps its score
SweptOk(processed, old, new, S) ==
    /\ processed => S >= PruneThreshold
    /\ \/ new = old /\ (processed => ~Changed(S, old))
       \/ processed /\ new = S

\* C11: after run_decay_sweep every item that is still non-pruned either
\* changed by at most 0.001 in the sweep or holds its recomputed score S with
\* S >= prune_threshold (importance of a vector, salience of an episode,
\* confidence of a fact); no processed item stays non-pruned with S below
\* the threshold.
C11_SweepPrunesBelowThreshold ==
    [][ SweepStep =>
          /\ \A i \in DOMAIN vectors :
                 ~vectors'[i].pruned =>
                     SweptOk(~vectors[i].pruned,
                             COALESCE(vectors[i].importance, 5000),
                             COALESCE(vectors'[i].importance, 5000),
                             calculate_salience(COALESCE(vectors[i].importance, 5000),
                                 COALESCE(vectors[i].access_count, 0),
                                 vectors[i].created_at, vectors[i].last_accessed, 0, now))
          /\ \A i \in DOMAIN episodes :
                 ~episodes'[i].pruned =>
                     SweptOk(~episodes[i].pruned, episodes[i].salience,
                             episodes'[i].salience,
                             calculate_salience(episodes[i].salience,
                                 episodes[i].retrieval_count, episodes[i].created_at,
                                 episodes[i].last_retrieved_at,
                                 COALESCE(episodes[i].emotional_tone, 0), now))
          /\ \A i \in DOMAIN facts :
                 ~facts'[i].pruned =>
                     SweptOk(IsActive(facts[i]), facts[i].confidence,
                             facts'[i].confidence,
                             calculate_salience(facts[i].confidence,
                                 facts[i].retrieval_count, facts[i].created_at,
                                 facts[i].last_retrieved_at, 0, now)) ]_vars

\* two sweeps have run: a vector fell below the threshold and is pruned, an
\* episode was rewritten and stays above it, a fact is still there
C11_Witness ==
    /\ sweeps = 2
    /\ \E i \in DOMAIN vectors :
           vectors[i].pruned /\ vectors[i].importance < PruneThreshold
    /\ \E i \in DOMAIN episodes :
           /\ ~episodes[i].pruned
           /\ episodes[i].salience >= PruneThreshold
           /\ episodes[i].salience # 9500
    /\ \E i \in DOMAIN facts : ~facts[i].pruned

(***************************************************************************)
(* Properties of the consolidation loop and the manual trigger             *)
(***************************************************************************)
\* the last step ran a consolidation cycle that returned Ok
CycleOk == lastCycle.ran /\ lastCycle.outcome.result = "Ok"

\* the episodes the cycle of the last step pushed to promoted_ids
Promoted == {lastCycle.outcome.promoted_ids[k] : k \in DOMAIN lastCycle.outcome.promoted_ids}

\* the episodes whose upsert returned Err in the cycle of the last step
Failed == lastCycle.outcome.failed

\* the episodes whose consolidated_at the last step set
NewlyConsolidated ==
    {i \in 1..Len(episodes) :
        /\ lastCycle.before[i].consolidated_at = NULL
        /\ episodes[i].consolidated_at # NULL}

\* C12: a background tick runs the cycle only if the idleness predicate
\* holds at the tick: the session-events probe succeeded, it found no event
\* within idle_threshold_seconds, and the load average was unreadable or not
\* above cpu_threshold_percent; a manual trigger runs the cycle whatever the
\* probe would have found.
C12_TickRunsOnlyWhenIdle ==
    /\ (lastCycle.trigger = "tick" /\ lastCycle.ran) =>
           /\ lastCycle.probe = "Ok"
           /\ lastCycle.recent = 0
           /\ \/ lastCycle.load = None
              \/ lastCycle.load[1] <= cpu_threshold_percent * cpu_count
    /\ lastCycle.trigger = "manual" => lastCycle.ran

\* a tick ran the cycle with the load exactly at the threshold, once the
\* session event was older than idle_threshold_seconds
C12_Witness ==
    /\ lastCycle.trigger = "tick"
    /\ lastCycle.ran
    /\ lastCycle.load = Some(80)
    /\ session_events # <<>>
    /\ lastCycle.outcome.promoted_ids # <<>>

\* C13: when run_consolidation_cycle returns Ok, the episodes whose
\* consolidated_at was newly set are exactly those whose fact was upserted
\* successfully; an episode whose upsert failed is not counted in
\* episodes_promoted and keeps consolidated_at NULL, and the candidates after
\* it are still processed.
C13_MarkedIffUpserted ==
    CycleOk =>
        /\ NewlyConsolidated = Promoted
        /\ Promoted \cap Failed = {}
        /\ lastCycle.outcome.report.episodes_promoted = Cardinality(Promoted)
        /\ \A i \in Failed : episodes[i].consolidated_at = NULL
        /\ \A i \in Promoted :
               \E k \in DOMAIN facts :
                   \E n \in DOMAIN facts[k].source_episodes :
                       facts[k].source_episodes[n] = i
        /\ \A k \in DOMAIN lastCycle.outcome.candidates :
               LET i == lastCycle.outcome.candidates[k]
               IN  extract_fact_from_episode(lastCycle.before[i], i) # None
                       => i \in Promoted \cup Failed

\* a cycle returned Ok in which one upsert failed and a later candidate was
\* promoted
C13_Witness ==
    /\ CycleOk
    /\ \E j, k \in DOMAIN lastCycle.outcome.candidates :
           /\ j < k
           /\ lastCycle.outcome.candidates[j] \in Failed
           /\ lastCycle.outcome.candidates[k] \in Promoted
           /\ episodes[lastCycle.outcome.candidates[j]].consolidated_at = NULL
           /\ episodes[lastCycle.outcome.candidates[k]].consolidated_at # NULL

\* C14: every consolidation cycle that completes, fired by the background
\* loop or by trigger_consolidation, is followed in the same handler by a
\* decay sweep.
C14_CycleRunsSweep ==
    CycleOk => sweeps = lastCycle.sweeps_before + 1

(***************************************************************************)
(* Properties of the shutdown                                              *)
(***************************************************************************)
\* shutdown_tx.send(()) has been called
ShutdownSent == proc["ctrl_c"] = "returned"

\* main has spawned what it spawns
StartupDone == proc["main"] \in {"await_unix", "returned"}

\* the loop of task t has ended by itself, or main never started it
Exited(t) == proc[t] \in {"returned", "unspawned"}

\* C15: after the shutdown signal is sent every long-lived loop (the
\* consolidation loop, the re-embed worker, the Unix-socket server, the HTTP
\* server) receives it and exits: eventually the server has started and each
\* loop it started has returned.
C15_LoopsExitAfterShutdown ==
    ShutdownSent ~> (StartupDone /\ \A t \in Loops : Exited(t))

(***************************************************************************)
(* Properties of ingest and of the re-embed worker                         *)
(***************************************************************************)
\* the rows of memory_vectors the re-embed worker is to fill
NullVectorRows ==
    {i \in DOMAIN vectors : vectors[i].vec = None /\ vectors[i].content # None}

EventsAdded == Len(session_events) - Len(lastIngest.events_before)

VectorsAdded == Len(vectors) - Len(lastIngest.vectors_before)

\* C20: ingest writes the session event and the memory-vector row
\* atomically: whatever the outcome (success, validation error, a storage
\* failure at any statement of the transaction), both rows were added or
\* neither; a payload without content or source returns an error and adds
\* nothing; a successful ingest added both, with the payload's content.
C20_IngestIsAtomic ==
    lastIngest.outcome # "none" =>
        /\ \/ EventsAdded = 1 /\ VectorsAdded = 1
           \/ EventsAdded = 0 /\ VectorsAdded = 0
        /\ SubSeq(session_events, 1, Len(lastIngest.events_before)) = lastIngest.events_before
        /\ (lastIngest.payload.content = None \/ lastIngest.payload.source = None) =>
               /\ lastIngest.outcome = "Err"
               /\ EventsAdded = 0
               /\ VectorsAdded = 0
        /\ lastIngest.outcome = "Ok" =>
               /\ EventsAdded = 1
               /\ VectorsAdded = 1
               /\ session_events[Len(session_events)].content = lastIngest.payload.content[1]
               /\ vectors[Len(vectors)].content = lastIngest.payload.content
        /\ lastIngest.failure \in {"begin", "insert_event", "insert_vector"} =>
               EventsAdded = 0 /\ VectorsAdded = 0

\* the second INSERT of an ingest failed after an earlier ingest succeeded:
\* nothing of the failed one is in either table
C20_Witness ==
    /\ lastIngest.outcome = "Err"
    /\ lastIngest.failure = "insert_vector"
    /\ lastIngest.payload.content # None
    /\ lastIngest.payload.source # None
    /\ session_events # <<>>
    /\ Len(session_events) = Len(lastIngest.events_before)
    /\ Len(vectors) = Len(lastIngest.vectors_before)

\* the call in progress or just ended went through the client's embed path
Embedding == call.state \in {"running", "done"} /\ call.method # "new"

\* the errors the specification calls transient
Transient(response) ==
    \/ response.kind = "transport"
    \/ response.status = 429
    \/ response.status >= 500

\* C17: one call of the cloud client posts at most max_retries times, a call
\* whose attempts all failed ends with RetryExhausted carrying the number of
\* attempts made, and a successful attempt is the last one
C17_AtMostMaxRetriesAttempts ==
    Embedding =>
        /\ Len(call.responses) <= max_retries
        /\ \A i \in 1..(Len(call.responses) - 1) : ~embed_once(call.responses[i]).ok
        /\ (call.state = "done" /\ call.client = "gemini" /\ call.result.kind = "Err") =>
               /\ call.result.value.error = "RetryExhausted"
               /\ call.result.value.fields = <<max_retries>>
               /\ Len(call.responses) = max_retries

\* C18: only transport errors, 429 and 5xx are followed by another attempt;
\* any other status and a vector of the wrong length end the call at once,
\* the latter with InvalidDimensions
C18_OnlyTransientErrorsRetried ==
    Embedding =>
        /\ \A i \in 1..(Len(call.responses) - 1) : Transient(call.responses[i])
        /\ (/\ call.state = "done"
            /\ call.client = "gemini"
            /\ call.responses[Len(call.responses)] = HttpResponse("status", 200, 3)) =>
               /\ call.result.kind = "Err"
               /\ call.result.value.error = "InvalidDimensions"

\* C19: a call of the fallback client never ends in an error: it ends with
\* the vector when the cloud client succeeded and with None when the cloud
\* client failed; an error comes from the construction of a client only
C19_FallbackNeverErrs ==
    (call.state = "done" /\ call.client = "fallback") =>
        IF call.method = "new"
        THEN call.result.kind = "Err" /\ call.responses = <<>>
        ELSE /\ call.result.kind \in {"Some", "None"}
             /\ call.result.kind = "Some" <=>
                    embed_once(call.responses[Len(call.responses)]).ok
             /\ call.result.kind = "None" =>
                    \A i \in 1..Len(call.responses) : ~embed_once(call.responses[i]).ok

\* a call of the fallback client ended with None after the cloud client
\* gave up
C19_Witness ==
    /\ call.state = "done"
    /\ call.client = "fallback"
    /\ call.method = "embed_query"
    /\ call.result.kind = "None"
    /\ call.result.value.error = "RetryExhausted"

\* a search request was answered in this state
Searched == lastRequest.via # "none" /\ lastSearch.status # "none"

\* C21: a search returns at most as many results as the limit asked for
\* allows (5 when none is given, 1 for less than 1, 20 for more than 20) and
\* reports their number as count
C21_AtMostLimitResults ==
    (Searched /\ lastSearch.status = "ok") =>
        /\ Len(lastSearch.results) <=
               (IF lastRequest.limit = NULL THEN 5
                ELSE IF lastRequest.limit < 1 THEN 1
                ELSE IF lastRequest.limit > 20 THEN 20
                ELSE lastRequest.limit)
        /\ lastSearch.count = Len(lastSearch.results)

\* a search that asked for 25 results of 21 stored rows returned 20
C21_Witness ==
    /\ Searched
    /\ lastSearch.status = "ok"
    /\ lastRequest.limit = 25
    /\ Len(vectors) > 20
    /\ Len(lastSearch.results) = 20
    /\ lastSearch.count = 20

\* the stored tables and the spawned recording tasks
Stored == <<facts, inbox, vectors, episodes, links, tasks>>

\* C22: a search whose trimmed query is empty or whose embed_query returned
\* Ok(None) or Err returns an error outcome, without a SELECT on the store
\* and without a recording task: the step leaves the stored state as it was
C22_FailedSearchLeavesStore ==
    [][(lastSearch'.status # "none"
            /\ (lastSearch'.query = <<>> \/ lastSearch'.embed \in {"None", "Err"})) =>
           /\ lastSearch'.status = "error"
           /\ lastSearch'.results = <<>>
           /\ ~lastSearch'.queried
           /\ Stored' = Stored]_vars

\* a search failed on embed_query while recording tasks of an earlier search
\* were waiting
C22_Witness ==
    /\ lastSearch.status = "error"
    /\ lastSearch.embed = "None"
    /\ lastSearch.query # <<>>
    /\ tasks # <<>>

\* C23: POST /search answers 400 exactly when the query is missing or
\* blank, 200 with results, count, query and took_ms when the search
\* succeeded, and 500 when embedding the query failed
C23_HttpSearchStatus ==
    lastRequest.via = "http" =>
        /\ lastRequest.code \in {200, 400, 500}
        /\ lastRequest.code = 400 => lastSearch.status = "none"
        /\ lastSearch.status = "ok" =>
               /\ lastRequest.code = 200
               /\ lastRequest.body = {"results", "count", "query", "took_ms"}
        /\ lastSearch.embed \in {"None", "Err"} => lastRequest.code = 500

\* spread_activation_core has returned
Spread == applied.fn = "spread_activation_core"

AnchorIds == {applied.anchors[k].id : k \in DOMAIN applied.anchors}

NodeIds == {applied.nodes[k].id : k \in DOMAIN applied.nodes}

\* C24: with spreading_strength = 0 and weight_structural = 0 every anchor
\* comes back with final_score = weight_similarity * cosine_score, with
\* edges and without
C24_ZeroStrengthIsSimilarityOnly ==
    (/\ Spread
     /\ applied.config.spreading_strength = 0
     /\ applied.config.weight_structural = 0) =>
        \A k \in DOMAIN applied.anchors :
            \E n \in DOMAIN applied.nodes :
                /\ applied.nodes[n].id = applied.anchors[k].id
                /\ applied.nodes[n].final_score =
                       Mul(applied.config.weight_similarity, applied.anchors[k].cosine_score)

\* the result holds each of its nodes once, highest final_score first
RankedOnce ==
    \A i, j \in DOMAIN applied.nodes :
        i < j => /\ applied.nodes[i].id # applied.nodes[j].id
                 /\ applied.nodes[i].final_score >= applied.nodes[j].final_score

SIMILARITY_THRESHOLD == 6000
WEIGHT_INCREMENT == 1000
MAX_WEIGHT == 10000
TOP_K_SIMILAR == 3

\* 1 - (vector <=> $1::vector) AS score
similarity_score(a, b) == One - cosine_distance(a, b)

above_threshold_Any(score) == TRUE

\* if score >= SIMILARITY_THRESHOLD
above_threshold(score) == score >= SIMILARITY_THRESHOLD

on_conflict_Excluded(weight, score) == score

\* DO UPDATE SET weight = LEAST($6, memory_graph_links.weight + $7)
on_conflict(weight, score) == Min(MAX_WEIGHT, weight + WEIGHT_INCREMENT)

\* INSERT INTO memory_graph_links (..., weight) VALUES (..., 'similarity', $5)
\* ON CONFLICT (from_type, from_id, to_type, to_id, relation) DO UPDATE ...
upsert_edge(table, from_id, to_id, score) ==
    LET old == {e \in table : e.from_id = from_id /\ e.to_id = to_id}
    IN  IF old = {} THEN table \cup {GraphLink(from_id, to_id, "episode", score)}
        ELSE (table \ old) \cup
             {[e EXCEPT !.weight = on_conflict(e.weight, score)] : e \in old}

RECURSIVE upsert_all(_, _)
\* the upserts of writes = <<from_id, to_id, score>>, ..., one after the other
upsert_all(table, writes) ==
    IF writes = <<>> THEN table
    ELSE upsert_all(upsert_edge(table, writes[1][1], writes[1][2], writes[1][3]),
                    Tail(writes))

\* what a call of link_memory did: its result, the edges it wrote, the edges
\* before it, and whether the call before it was a completed call for the
\* same item
LinkSeen(source_id, result, links_created, written, before, again) ==
    [fn |-> "link_memory", source_id |-> source_id, result |-> result,
     links_created |-> links_created, written |-> written, before |-> before,
     again |-> again,
     calls |-> IF applied.fn = "link_memory" THEN applied.calls + 1 ELSE 1]

\* link_memory(pool, source_type, source_id, _client): every statement runs on
\* the pool by itself, so a statement that fails leaves the upserts before it
\* in place
link_memory(source_id) ==
    LET again == /\ applied.fn = "link_memory"
                 /\ applied.source_id = source_id
                 /\ applied.result = "Ok"
    IN
    IF source_id \notin DOMAIN vectors
    THEN /\ applied' = LinkSeen(source_id, "Ok", 0, {}, links, again)
         /\ UNCHANGED links
    ELSE IF vectors[source_id].vec = None
    THEN /\ applied' = LinkSeen(source_id, "Err", 0, {}, links, again)
         /\ UNCHANGED links
    ELSE
    LET vector == vectors[source_id].vec[1]
        others == {i \in DOMAIN vectors : i # source_id /\ vectors[i].vec # None}
        score == [i \in others |-> similarity_score(vectors[i].vec[1], vector)]
        qualifying == {i \in others : score[i] >= SIMILARITY_THRESHOLD}
    IN  \E nearest \in Descending(others, score),
           reverse_nearest \in Descending(qualifying, score),
           outcome \in SqlOutcome :
          LET similar_rows == Take(nearest, TOP_K_SIMILAR)
              targets == Filter(similar_rows, {i \in others : above_threshold(score[i])})
              forward == [k \in 1..Len(targets) |->
                             <<source_id, targets[k], score[targets[k]]>>]
              reverse_rows == Take(reverse_nearest, TOP_K_SIMILAR)
              reverse == [k \in 1..Len(reverse_rows) |->
                             <<reverse_rows[k], source_id, score[reverse_rows[k]]>>]
              writes == forward \o reverse
          IN  \E done \in 0..Len(writes) :
                 /\ outcome = "Ok" => done = Len(writes)
                 /\ outcome = "Err" => (done < Len(writes) \/ done = Len(forward))
                 /\ links' = upsert_all(links, Take(writes, done))
                 /\ applied' = LinkSeen(source_id, outcome,
                                        IF outcome = "Ok" THEN Len(forward) ELSE 0,
                                        {<<writes[k][1], writes[k][2]>> : k \in 1..done},
                                        links, again)

\* the unit vectors of the rows of the linker's store: 0.97, 0.85 and 0.70
\* apart for the first three, the last nearly orthogonal to the first
LinkDirections == << <<0, 10000>>, <<2431, 9700>>, <<7141, 7000>>, <<10000, 0>> >>

MaxLinkRows == 5
MaxLinkCalls == 2

\* the rows a caller may find: four embedded rows and one more whose vector
\* is still NULL or equals that of another row
LinkStores ==
    { [i \in 1..MaxLinkRows |->
          MemoryVector(<<"m">>, IF i <= Len(LinkDirections)
                                THEN Some(LinkDirections[i]) ELSE fifth,
                       NULL, 0)] :
        fifth \in {None, Some(LinkDirections[2]), Some(LinkDirections[3])} }

InitLinker ==
    /\ facts = <<>>
    /\ inbox = <<>>
    /\ lastUpsert = NoUpsert
    /\ vectors \in LinkStores
    /\ episodes = <<>>
    /\ links = {}
    /\ tasks = <<>>
    /\ lastSearch = NoSearch
    /\ now = 0
    /\ sweeps = 0
    /\ InitServer

\* a caller links an item: one of the rows, or an item that has no row
LinkMemory ==
    /\ applied.fn = "link_memory" => applied.calls < MaxLinkCalls
    /\ \E source_id \in 1..(MaxLinkRows + 1) : link_memory(source_id)
    /\ UNCHANGED <<facts, inbox, lastUpsert, vectors, episodes, tasks, lastSearch, now,
                   sweeps, serverVars, runtimeVars, pipelineVars>>

NextLinker == LinkMemory

SpecLinker == InitLinker /\ [][NextLinker]_vars

LinkCall == applied.fn = "link_memory"

\* the similarity of the two rows an edge joins
EdgeScore(e) == similarity_score(vectors[e.from_id].vec[1], vectors[e.to_id].vec[1])

\* C26: after any sequence of link_memory calls every similarity edge joins
\* two embedded rows whose similarity is at least 0.6, and its weight is that
\* similarity strengthened some number of times by 0.1 and capped at 1.0, so
\* it lies in (0, 1]
C26_EdgeWeightsInRange ==
    \A e \in links :
        /\ e.from_id \in DOMAIN vectors /\ e.to_id \in DOMAIN vectors
        /\ vectors[e.from_id].vec # None /\ vectors[e.to_id].vec # None
        /\ EdgeScore(e) >= SIMILARITY_THRESHOLD
        /\ 0 < e.weight /\ e.weight <= MAX_WEIGHT
        /\ e.weight >= EdgeScore(e)
        /\ (e.weight = MAX_WEIGHT \/ (e.weight - EdgeScore(e)) % WEIGHT_INCREMENT = 0)

\* an edge whose strengthening was cut at the cap, one inserted at its
\* similarity, and a pair of embedded rows below the threshold
C26_Witness ==
    /\ LinkCall
    /\ \E e \in links : e.weight = MAX_WEIGHT /\ EdgeScore(e) < MAX_WEIGHT
    /\ \E e \in links : e.weight = EdgeScore(e) /\ e.weight < MAX_WEIGHT
    /\ \E i, j \in DOMAIN vectors :
          /\ i # j /\ vectors[i].vec # None /\ vectors[j].vec # None
          /\ similarity_score(vectors[i].vec[1], vectors[j].vec[1]) < SIMILARITY_THRESHOLD

\* a completed call that follows a completed call for the same item
LinkedAgain == LinkCall /\ applied.again /\ applied.result = "Ok"

\* C27 as stated: a second call of link_memory for the same item leaves the
\* edges and their weights as the first call left them
C27_SecondCallChangesNothing == LinkedAgain => links = applied.before

\* C27: a second call of link_memory for the same item removes no edge and
\* lowers no weight: an edge it writes again has min(1.0, weight + 0.1), and
\* every other edge keeps its weight
C27_SecondCallStrengthens ==
    LinkedAgain =>
        \A e \in applied.before :
            \E d \in links :
                /\ d.from_id = e.from_id /\ d.to_id = e.to_id
                /\ d.weight = IF <<e.from_id, e.to_id>> \in applied.written
                              THEN Min(MAX_WEIGHT, e.weight + WEIGHT_INCREMENT)
                              ELSE e.weight

\* a second call that strengthened an edge below the cap
C27_Witness ==
    /\ LinkedAgain
    /\ \E e \in applied.before, d \in links :
          /\ d.from_id = e.from_id /\ d.to_id = e.to_id
          /\ <<e.from_id, e.to_id>> \in applied.written
          /\ e.weight < MAX_WEIGHT
          /\ d.weight = e.weight + WEIGHT_INCREMENT

(***************************************************************************)
(* run_reembed_tick called by a caller that keeps its result, over rows    *)
(* whose vectors are NULL, while the backend is degraded and after it has  *)
(* recovered                                                               *)
(***************************************************************************)
MaxNullRows == 4

InitReembed ==
    /\ facts = <<>>
    /\ inbox = <<>>
    /\ lastUpsert = NoUpsert
    /\ vectors = [i \in 1..(MaxNullRows + 1) |->
                     IF i <= MaxNullRows
                     THEN [MemoryVector(<<"a">>, None, NULL, NULL) EXCEPT !.created_at = i % 2]
                     ELSE MemoryVector(<<"b">>, Some(EmbedOf(<<"b">>)), NULL, NULL)]
    /\ episodes = <<>>
    /\ links = {}
    /\ tasks = <<>>
    /\ lastSearch = NoSearch
    /\ now = 0
    /\ sweeps = 0
    /\ session_events = <<>>
    /\ secs = 0
    /\ lastCycle = NoCycle
    /\ cycles = 0
    /\ lastRequest = NoRequest
    /\ proc = [t \in Tasks |-> "unspawned"]
    /\ rx = [r \in Receivers |-> "none"]
    /\ backend = "degraded"
    /\ embed_tasks = {}
    /\ call = NoCall
    /\ lastIngest = NoIngest
    /\ applied = TickCaller

NextReembed ==
    \/ ReembedTick
    \/ BackendRecovers

SpecReembed == InitReembed /\ [][NextReembed]_vars

\* the step is a tick whose result the caller has
TickStep == applied'.fn = "run_reembed_tick" /\ applied' # applied

\* the place in the batch of the first row backend.embed returned None for,
\* 0 if there is none
FirstNone(outcome) ==
    IF \E k \in DOMAIN outcome : outcome[k] = "None"
    THEN CHOOSE k \in DOMAIN outcome :
            outcome[k] = "None" /\ \A n \in 1..(k - 1) : outcome[n] # "None"
    ELSE 0

\* C28: in a tick where backend.embed returned None for a row, the rows
\* embedded before that row are written, that row and every later row of
\* the batch keep a NULL vector, no other row changes, and the tick reports
\* the rows it embedded and at least one skipped row
C28_NoneStopsBatch ==
    [][(TickStep /\ FirstNone(applied'.outcome) > 0) =>
          LET seen == applied'
              stop == FirstNone(seen.outcome)
              batch == {seen.rows[k] : k \in DOMAIN seen.rows}
          IN  /\ seen.result = "Ok"
              /\ \A k \in DOMAIN seen.rows :
                    /\ (k < stop /\ seen.outcome[k] = "Some")
                          => vectors'[seen.rows[k]].vec # None
                    /\ k >= stop => vectors'[seen.rows[k]].vec = None
              /\ \A i \in DOMAIN vectors : i \notin batch => vectors'[i] = vectors[i]
              /\ seen.embedded =
                    Cardinality({k \in 1..(stop - 1) : seen.outcome[k] = "Some"})
              /\ seen.skipped >= 1]_vars

\* a tick that embedded its first row and got None for the second
C28_Witness ==
    /\ applied.fn = "run_reembed_tick"
    /\ applied.result = "Ok"
    /\ Len(applied.rows) = ReembedBatchSize
    /\ applied.outcome[1] = "Some" /\ applied.outcome[2] = "None"
    /\ applied.embedded = 1 /\ applied.skipped = 1
    /\ vectors[applied.rows[1]].vec # None
    /\ vectors[applied.rows[2]].vec = None

(***************************************************************************)
(* Properties of the decay sweep in the consolidation loop                 *)
(***************************************************************************)
\* the step starts a decay sweep
SweepStarts == sweeps' # sweeps

\* C29: in the background loop a decay sweep starts only in the tick whose
\* consolidation cycle has just returned Ok, one sweep for that cycle, never
\* in a tick skipped as not idle, after a failed cycle or in any other step;
\* and a tick whose sweep returned Err leaves the loop waiting for its next
\* tick
C29_SweepOnlyAfterOkCycle ==
    [][/\ SweepStarts =>
             /\ sweeps' = sweeps + 1
             /\ cycles' = cycles + 1
             /\ lastCycle'.sweeps_before = sweeps
             /\ lastCycle'.trigger = "tick"
             /\ lastCycle'.ran
             /\ lastCycle'.outcome.result = "Ok"
             /\ proc["consolidation"] = "waiting"
       /\ (SweepStarts /\ lastCycle'.sweep = "Err") =>
             /\ proc'["consolidation"] = "waiting"
             /\ rx' = rx]_vars

\* a tick that the loop served after a tick whose sweep returned Err
C29_Witness ==
    /\ lastCycle.trigger = "tick"
    /\ lastCycle.sweep_before = "Err"
    /\ lastCycle.ran
    /\ sweeps = 2
    /\ proc["consolidation"] = "waiting"

\* C30: when the sweep of one table fails, run_decay_sweep still sweeps the
\* tables after it and returns a report
C30_FailedTableDoesNotStopSweep ==
    [][(SweepStarts /\ lastCycle'.failed # "none") =>
          LET o == lastCycle'.outcome
          IN  /\ lastCycle'.sweep = "Ok"
              /\ lastCycle'.failed = "vectors" =>
                    episodes' \in {decay_episodic_traces(o.episodes, B, now) :
                                      B \in Batches(EpisodeBatchRows(o.episodes))}
              /\ lastCycle'.failed \in {"vectors", "episodes"} =>
                    facts' \in {decay_semantic_facts(o.facts, B, now) :
                                   B \in Batches(FactBatchRows(o.facts))}]_vars

(***************************************************************************)
(* A memory_vectors table with more rows than one sweep reads: the rows    *)
(* are alike, twenty days old after the clock's tick, and a sweep that     *)
(* reads one then prunes it                                                *)
(***************************************************************************)
MaxSweepRows == 501

InitLargeTable ==
    /\ facts = <<>>
    /\ inbox = <<>>
    /\ lastUpsert = NoUpsert
    /\ vectors = [i \in 1..MaxSweepRows |-> MemoryVector(<<"m">>, None, 5000, 0)]
    /\ episodes = <<>>
    /\ links = {}
    /\ tasks = <<>>
    /\ lastSearch = NoSearch
    /\ now = 0
    /\ sweeps = 0
    /\ InitServer

NextLargeTable == DecaySweep \/ Tick

SpecLargeTable == InitLargeTable /\ [][NextLargeTable]_vars

\* C31: one run_decay_sweep recomputes every row of each table that was not
\* pruned before it (for a fact: not pruned and not superseded), however
\* many such rows the table holds
C31_SweepVisitsEveryRow ==
    [][SweepStep =>
          /\ \A i \in VectorBatchRows(vectors) :
                vectors'[i] = decay_vector_row(vectors[i], now)
          /\ \A i \in EpisodeBatchRows(episodes) :
                episodes'[i] = decay_episode_row(episodes[i], now)
          /\ \A i \in FactBatchRows(facts) :
                facts'[i] = decay_fact_row(facts[i], now)]_vars

(***************************************************************************)
(* Sweeps over the three tables while facts are promoted and superseded:   *)
(* one vector that the first sweep after the clock's tick prunes, one that *)
(* the second prunes, an episode, and a decision that supersedes a fact    *)
(***************************************************************************)
DecidedFact == { Fact("decision", "uses", <<"R">>, 8300, 1) }

\* a cycle promotes the fact or the decision
PromoteOrDecide == \E f \in PromotedFact \cup DecidedFact : upsert_fact(f)

InitSwept ==
    /\ facts = <<>>
    /\ inbox = <<>>
    /\ lastUpsert = NoUpsert
    /\ vectors = << MemoryVector(<<"c">>, None, 9800, NULL),
                    MemoryVector(<<"d">>, None, 5000, NULL) >>
    /\ episodes = << EpisodicTrace(9500, One), EpisodicTrace(5000, 0) >>
    /\ links = {}
    /\ tasks = <<>>
    /\ lastSearch = NoSearch
    /\ now = 0
    /\ sweeps = 0
    /\ InitServer

NextSwept ==
    \/ PromoteOrDecide
    \/ RecordFact
    \/ DecaySweep
    \/ Tick

SpecSwept == InitSwept /\ [][NextSwept]_vars

\* C32: a decay sweep leaves every row that is pruned before it, and every
\* fact whose superseded_by is set before it, as it was: scores, flag and
\* all
C32_SweepSkipsPrunedAndSuperseded ==
    [][SweepStep =>
          /\ \A i \in DOMAIN vectors : vectors[i].pruned => vectors'[i] = vectors[i]
          /\ \A i \in DOMAIN episodes : episodes[i].pruned => episodes'[i] = episodes[i]
          /\ \A i \in DOMAIN facts :
                (facts[i].pruned \/ facts[i].superseded_by # NULL)
                    => facts'[i] = facts[i]]_vars

\* two sweeps after the tick: the second pruned the first vector and left
\* the one the first had pruned at its once-decayed importance; and a sweep
\* that lowered the confidence of a superseding fact left the fact it
\* supersedes untouched
C32_Witness ==
    /\ sweeps = 2
    /\ vectors[1].pruned
    /\ vectors[2].pruned
    /\ vectors[2].importance =
          calculate_salience(5000, 0, 0, NULL, 0, DaysPerTick)
    /\ \E i, j \in DOMAIN facts :
          /\ facts[i].superseded_by = j
          /\ facts[i].created_at = 0
          /\ facts[i].confidence \in {f.confidence : f \in PromotedFact \cup DecidedFact}
          /\ facts[i].salience = One
          /\ facts[j].created_at = 0
          /\ facts[j].salience < One

(***************************************************************************)
(* Searches by a caller that sees the ranking: three embedded rows, and an *)
(* edge from the nearest row to an episode that has no row in              *)
(* memory_vectors                                                          *)
(***************************************************************************)
InitRanked ==
    /\ facts = <<>>
    /\ inbox = <<>>
    /\ lastUpsert = NoUpsert
    /\ vectors = [i \in 1..3 |->
                     MemoryVector(<<"m">>, Some(Directions[i]), NULL, MaxRetrievals - 1)]
    /\ episodes = <<>>
    /\ links = { GraphLink(1, EpisodeNode, "episode", 5000), GraphLink(2, 1, "user", 5000) }
    /\ tasks = <<>>
    /\ lastSearch = NoSearch
    /\ now = 0
    /\ sweeps = 0
    /\ session_events = <<>>
    /\ secs = 0
    /\ lastCycle = NoCycle
    /\ cycles = 0
    /\ lastRequest = NoRequest
    /\ proc = [t \in Tasks |-> "unspawned"]
    /\ rx = [r \in Receivers |-> "none"]
    /\ backend = "degraded"
    /\ embed_tasks = {}
    /\ call = NoCall
    /\ lastIngest = NoIngest
    /\ applied = SearchCaller

NextRanked ==
    \/ SocketSearch
    \/ RecordTask

SpecRanked == InitRanked /\ [][NextRanked]_vars

\* C33: a search with use_spreading returns the first limit nodes of the
\* spreading ranking: as many results as min(limit, ranked nodes), the k-th
\* result being the k-th node of the ranking with its final_score
C33_SpreadingReturnsTopLimit ==
    (lastSearch.status = "ok" /\ applied.fn = "search_memory" /\ applied.use_spreading) =>
        /\ Len(lastSearch.results) = Min(applied.limit, Len(applied.final_nodes))
        /\ \A k \in DOMAIN lastSearch.results :
              /\ lastSearch.results[k].id = applied.final_nodes[k].id
              /\ lastSearch.results[k].score = applied.final_nodes[k].final_score

(***************************************************************************)
(* The counts a re-embed tick returns                                      *)
(***************************************************************************)
\* C34: a tick that returned Ok((embedded, skipped)) counted each row it
\* fetched once: embedded + skipped is the number of rows of the batch
C34_EachRowCountedOnce ==
    (applied.fn = "run_reembed_tick" /\ applied.result = "Ok") =>
        applied.embedded + applied.skipped = Len(applied.rows)

(***************************************************************************)
(* embedder.rs, reembed.rs: embed_by_id and run_reembed_tick statement by  *)
(* statement.  Between its SELECT and its UPDATE a call awaits the         *)
(* backend, and the calls of the embed task of an ingest, of an Embed      *)
(* request and of the re-embed worker run on the same rows meanwhile.      *)
(* proc holds where each of the three stands.                              *)
(***************************************************************************)
\* the callers of embed_by_id: the task spawn_embed_task spawned and
\* handle_embed_request
EmbedCallers == {"embed task", "Embed request"}

RowWriters == EmbedCallers \cup {"reembed tick"}

\* a call that has not begun or has returned
Idle == [at |-> "idle", id |-> 0, rows |-> <<>>, k |-> 0]

\* SELECT content, vector FROM memory_vectors WHERE id = $1: a row with a
\* vector returns Ok(false), a row without content Err
embed_by_id_select(w, id) ==
    /\ proc[w].at = "idle"
    /\ id \in DOMAIN vectors
    /\ proc' = [proc EXCEPT ![w] =
                   IF vectors[id].vec # None \/ vectors[id].content = None
                   THEN Idle
                   ELSE [Idle EXCEPT !.at = "selected", !.id = id]]
    /\ UNCHANGED <<storeVars, serverVars, rx, pipelineVars, coreVars>>

\* backend.embed(&content).await: Ok(None) and Err return
embed_by_id_embed(w, outcome) ==
    /\ proc[w].at = "selected"
    /\ proc' = [proc EXCEPT ![w] =
                   IF outcome = "Some" THEN [proc[w] EXCEPT !.at = "embedded"] ELSE Idle]
    /\ UNCHANGED <<storeVars, serverVars, rx, pipelineVars, coreVars>>

\* UPDATE memory_vectors SET vector = $1 WHERE id = $2
update_vector(vs, id) ==
    [vs EXCEPT ![id].vec = Some(EmbedOf(vs[id].content[1]))]

embed_by_id_update(w) ==
    /\ proc[w].at = "embedded"
    /\ vectors' = update_vector(vectors, proc[w].id)
    /\ proc' = [proc EXCEPT ![w] = Idle]
    /\ UNCHANGED <<facts, inbox, lastUpsert, episodes, links, tasks, lastSearch, now, sweeps,
                   serverVars, rx, pipelineVars, coreVars>>

\* the tick goes on with the row after rows[k], or returns after the last
next_row(p) ==
    IF p.k < Len(p.rows)
    THEN [p EXCEPT !.at = "fetched", !.k = p.k + 1, !.id = p.rows[p.k + 1]]
    ELSE Idle

\* the count of the NULL-vector rows and fetch_null_rows: no such row
\* returns Ok((0, 0))
reembed_fetch ==
    LET w == "reembed tick"
    IN  /\ proc[w].at = "idle"
        /\ \E rows \in fetch_null_rows(vectors) :
              proc' = [proc EXCEPT ![w] =
                          IF rows = <<>> THEN Idle
                          ELSE [at |-> "fetched", id |-> rows[1], rows |-> rows, k |-> 1]]
        /\ UNCHANGED <<storeVars, serverVars, rx, pipelineVars, coreVars>>

\* backend.embed(&row.content).await in the loop: Ok(None) returns, Err
\* goes on with the next row
reembed_embed(outcome) ==
    LET w == "reembed tick"
    IN  /\ proc[w].at = "fetched"
        /\ proc' = [proc EXCEPT ![w] =
                       CASE outcome = "Some" -> [proc[w] EXCEPT !.at = "embedded"]
                         [] outcome = "None" -> Idle
                         [] OTHER -> next_row(proc[w])]
        /\ UNCHANGED <<storeVars, serverVars, rx, pipelineVars, coreVars>>

\* UPDATE memory_vectors SET vector = $1, updated_at = NOW() WHERE id = $2
reembed_update ==
    LET w == "reembed tick"
    IN  /\ proc[w].at = "embedded"
        /\ vectors' = update_vector(vectors, proc[w].id)
        /\ proc' = [proc EXCEPT ![w] = next_row(proc[w])]
        /\ UNCHANGED <<facts, inbox, lastUpsert, episodes, links, tasks, lastSearch, now,
                       sweeps, serverVars, rx, pipelineVars, coreVars>>

EmbedSelect == \E w \in EmbedCallers, id \in DOMAIN vectors : embed_by_id_select(w, id)

EmbedCall == \E w \in EmbedCallers, outcome \in BackendOutcomes : embed_by_id_embed(w, outcome)

EmbedUpdate == \E w \in EmbedCallers : embed_by_id_update(w)

ReembedFetch == reembed_fetch

ReembedCall == \E outcome \in BackendOutcomes : reembed_embed(outcome)

ReembedUpdate == reembed_update

\* two ingested rows without a vector, the backend not answering reliably
InitRace ==
    /\ facts = <<>>
    /\ inbox = <<>>
    /\ lastUpsert = NoUpsert
    /\ vectors = << MemoryVector(<<"a">>, None, NULL, NULL),
                    MemoryVector(<<"c">>, None, NULL, NULL) >>
    /\ episodes = <<>>
    /\ links = {}
    /\ tasks = <<>>
    /\ lastSearch = NoSearch
    /\ now = 0
    /\ sweeps = 0
    /\ session_events = <<>>
    /\ secs = 0
    /\ lastCycle = NoCycle
    /\ cycles = 0
    /\ lastRequest = NoRequest
    /\ proc = [w \in RowWriters |-> Idle]
    /\ rx = [r \in Receivers |-> "none"]
    /\ backend = "degraded"
    /\ embed_tasks = {}
    /\ call = NoCall
    /\ lastIngest = NoIngest
    /\ applied = NoApplied

NextRace ==
    \/ EmbedSelect
    \/ EmbedCall
    \/ EmbedUpdate
    \/ ReembedFetch
    \/ ReembedCall
    \/ ReembedUpdate

SpecRace == InitRace /\ [][NextRace]_vars

\* the step runs the UPDATE of a call that embedded row i
UpdatesRow(i) ==
    \E w \in RowWriters :
        /\ proc[w].at = "embedded"
        /\ proc[w].id = i
        /\ proc'[w] # proc[w]

\* C35: an UPDATE that sets the vector of a row runs only while the vector
\* of that row is NULL: a vector, once written, is not written again
C35_VectorWrittenOnce ==
    [][\A i \in DOMAIN vectors : UpdatesRow(i) => vectors[i].vec = None]_vars

(***************************************************************************)
(* consolidate.rs: upsert_fact statement by statement.  The cycle of the   *)
(* background loop and the cycle of a manual trigger run on the same pool; *)
(* between the SELECT of an upsert_fact and the statements of its match    *)
(* arm the other call runs its own.  proc holds where each call stands.    *)
(***************************************************************************)
Upserters == {"background cycle", "manual trigger"}

\* an upsert_fact not begun
NotCalled == [at |-> "idle", fact |-> NULL, existing |-> None, result |-> "None"]

\* the calls between their SELECT and their match arm
Selected == {w \in Upserters : proc[w].at = "selected"}

\* SELECT id, object, confidence, flagged_for_review ... LIMIT 1: None, or
\* Some of any one active row of the key
upsert_fact_select(w, f) ==
    /\ proc[w].at # "selected"
    /\ Len(facts) + Cardinality(Selected) < MaxFacts
    /\ \E existing \in
           IF ActiveFacts(facts, f.subject, f.predicate) = {} THEN {None}
           ELSE {Some([id |-> e, object |-> facts[e].object,
                       confidence |-> facts[e].confidence,
                       flagged_for_review |-> facts[e].flagged_for_review]) :
                    e \in ActiveFacts(facts, f.subject, f.predicate)} :
          proc' = [proc EXCEPT ![w] = [at |-> "selected", fact |-> f,
                                       existing |-> existing, result |-> "None"]]
    /\ UNCHANGED <<storeVars, serverVars, rx, pipelineVars, coreVars>>

\* match existing: the arm follows from the row the SELECT returned
upsert_fact_match(w) ==
    /\ proc[w].at = "selected"
    /\ LET f == proc[w].fact
           new_id == Len(facts) + 1
           res == IF proc[w].existing = None THEN "Created"
                  ELSE Resolution(proc[w].existing[1].object,
                                  proc[w].existing[1].confidence, f)
           e == IF proc[w].existing = None THEN NULL ELSE proc[w].existing[1].id
       IN  /\ CASE res = "Created" ->
                      /\ facts' = insert_fact(facts, f, now)
                      /\ inbox' = inbox
                 [] res = "Updated" ->
                      /\ Len(facts[e].object) + 1 + Len(f.object) <= MaxObjLen
                      /\ facts' = update_fact(facts, e, f, now)
                      /\ inbox' = inbox
                 [] res = "Superseded" ->
                      /\ facts' = set_superseded_by(insert_fact(facts, f, now), new_id, e)
                      /\ inbox' = inbox
                 [] OTHER ->
                      /\ facts' = flag_conflict(facts, e, f, now)
                      /\ inbox' = write_to_review_inbox(inbox, e, f,
                                      proc[w].existing[1].flagged_for_review)
           /\ proc' = [proc EXCEPT ![w] = [@ EXCEPT !.at = "returned", !.result = res]]
    /\ UNCHANGED <<lastUpsert, vectors, episodes, links, tasks, lastSearch, now, sweeps,
                   serverVars, rx, pipelineVars, coreVars>>

UpsertSelect == \E w \in Upserters, f \in ExtractedFact : upsert_fact_select(w, f)

UpsertMatch == \E w \in Upserters : upsert_fact_match(w)

InitUpserts ==
    /\ facts = <<>>
    /\ inbox = <<>>
    /\ lastUpsert = NoUpsert
    /\ vectors = <<>>
    /\ episodes = <<>>
    /\ links = {}
    /\ tasks = <<>>
    /\ lastSearch = NoSearch
    /\ now = 0
    /\ sweeps = 0
    /\ session_events = <<>>
    /\ secs = 0
    /\ lastCycle = NoCycle
    /\ cycles = 0
    /\ lastRequest = NoRequest
    /\ proc = [w \in Upserters |-> NotCalled]
    /\ rx = [r \in Receivers |-> "none"]
    /\ backend = "degraded"
    /\ embed_tasks = {}
    /\ call = NoCall
    /\ lastIngest = NoIngest
    /\ applied = NoApplied

NextUpserts == UpsertSelect \/ UpsertMatch

SpecUpserts == InitUpserts /\ [][NextUpserts]_vars

\* C36: the last upsert_fact of the background cycle and the last of the
\* manual trigger, both returned, did not both create a fact of the same
\* (subject, predicate)
C36_NeverBothCreate ==
    \A v, w \in Upserters :
        (/\ v # w
         /\ proc[v].at = "returned" /\ proc[w].at = "returned"
         /\ proc[v].fact.subject = proc[w].fact.subject
         /\ proc[v].fact.predicate = proc[w].fact.predicate)
            => ~(proc[v].result = "Created" /\ proc[w].result = "Created")

(***************************************************************************)
(* Episodes as the sources of facts                                        *)
(***************************************************************************)
\* the places in source_episodes of the fact rows that name episode id: one
\* for the INSERT of a fact extracted from it, one for every refinement
SourcePlaces(id) ==
    UNION { { <<i, k>> : k \in {j \in DOMAIN facts[i].source_episodes :
                                   facts[i].source_episodes[j] = id} }
            : i \in DOMAIN facts }

\* C37: over the cycles of the loop and of manual triggers, whatever fails
\* in them, an episode is the source of at most one inserted or refined fact
C37_EpisodePromotedOnce ==
    \A id \in DOMAIN episodes : Cardinality(SourcePlaces(id)) <= 1

(***************************************************************************)
(* The consolidation loop over more candidates than one cycle selects: the *)
(* system stays idle, the ticker keeps firing, and every statement of a    *)
(* cycle and of its sweep succeeds.  The sweeps are not counted and the    *)
(* counter of cycles wraps around.                                         *)
(***************************************************************************)
\* candidates no fact is extracted from: retrieved five times, no pattern,
\* importance below 0.8
MaxUnextractable == 100

\* how important the episode a fact is extracted from may be: below every
\* one of the others, above them, and above importance_threshold
ExtractableImportances == {5000, 6000, 6200, 9000}

InitStarved ==
    /\ facts = <<>>
    /\ inbox = <<>>
    /\ lastUpsert = NoUpsert
    /\ vectors = <<>>
    /\ \E importance \in ExtractableImportances :
          episodes = [i \in 1..(MaxUnextractable + 1) |->
                         IF i <= MaxUnextractable
                         THEN Episode(<<"y">>, 6000 + i, retrieval_threshold)
                         ELSE Episode(<<"Decided", "use", "p">>, importance, 0)]
    /\ links = {}
    /\ tasks = <<>>
    /\ lastSearch = NoSearch
    /\ now = 0
    /\ sweeps = 0
    /\ session_events = <<>>
    /\ secs = 0
    /\ lastCycle = NoCycle
    /\ cycles = 0
    /\ lastRequest = NoRequest
    /\ proc = [t \in Tasks |-> "unspawned"]
    /\ rx = [r \in Receivers |-> "none"]
    /\ backend = "degraded"
    /\ embed_tasks = {}
    /\ call = NoCall
    /\ lastIngest = NoIngest
    /\ applied = NoApplied

\* a tick of run_consolidation_loop in the idle system: the cycle, in which
\* the fetch, every upsert and the mark return Ok, and the sweep after it
IdleTick ==
    /\ \E o \in run_consolidation_cycle(facts, inbox, episodes, now) :
          /\ o.result = "Ok"
          /\ o.failed = {}
          /\ inbox' = o.inbox
          /\ sweep_tables(o.episodes, o.facts, "none")
    /\ cycles' = (cycles + 1) % MaxCycles
    /\ UNCHANGED <<lastUpsert, links, tasks, lastSearch, now, sweeps,
                   session_events, secs, lastCycle, lastRequest,
                   runtimeVars, pipelineVars, coreVars>>

NextStarved == IdleTick \/ Tick

SpecStarved == InitStarved /\ [][NextStarved]_vars /\ WF_vars(IdleTick)

\* episode i is a row fetch_promotion_candidates may select and
\* extract_fact_from_episode returns a fact for
Extractable(i) ==
    /\ i \in DOMAIN episodes
    /\ is_promotion_candidate(episodes[i])
    /\ extract_fact_from_episode(episodes[i], i) # None

\* the rows whose content and importance let a fact be extracted
ExtractableRows == {MaxUnextractable + 1}

\* C38: while the cycles keep running and succeed, an unconsolidated,
\* non-pruned candidate a fact is extracted from is eventually marked
\* consolidated
C38_ExtractableIsEventuallyConsolidated ==
    \A i \in ExtractableRows :
        Extractable(i) ~> (episodes[i].consolidated_at # NULL)

(***************************************************************************)
(* Pruning and supersession                                                *)
(***************************************************************************)
\* the rows of table t that are pruned stay pruned in the step; a table
\* only grows
StaysPruned(t, u) ==
    \A i \in DOMAIN t : t[i].pruned => (i \in DOMAIN u /\ u[i].pruned)

\* C39: no step sets pruned back to false in memory_vectors,
\* episodic_traces or semantic_facts, and no step clears or changes a
\* superseded_by that is set
C39_PrunedAndSupersededStay ==
    [][/\ StaysPruned(vectors, vectors')
       /\ StaysPruned(episodes, episodes')
       /\ StaysPruned(facts, facts')
       /\ \A i \in DOMAIN facts :
             facts[i].superseded_by # NULL =>
                 /\ i \in DOMAIN facts'
                 /\ facts'[i].superseded_by = facts[i].superseded_by]_vars

(***************************************************************************)
(* graph.rs: the iterations of spread_activation_core with the order in    *)
(* which `for (node_id, &node_activation) in &activation` visits the map   *)
(* made explicit.  A HashMap yields its entries in an order of its own,    *)
(* so every iteration visits the keys in any order.                        *)
(***************************************************************************)
(***************************************************************************)
(* f32: the scores of graph.rs are IEEE 754 binary32 values.  A score is   *)
(* the record [m, e] of value m * 2^e with a significand of 24 bits,       *)
(* 2^23 <= m < 2^24, or m = 0; scores are non-negative and far from the    *)
(* ends of the exponent range.  Every operation rounds its exact result    *)
(* to the nearest value, a tie to the even significand.                    *)
(***************************************************************************)
F32(m, e) == [m |-> m, e |-> e]

\* 0.0
F32Zero == F32(0, 0)

\* the number of bits of n, 0 < n < 2^30
bit_length(n) == CHOOSE k \in 1..30 : 2^(k - 1) <= n /\ n < 2^k

\* n / 2^d rounded to the nearest integer, a tie to the even one
round_ties_even(n, d) ==
    IF d = 0 THEN n
    ELSE LET q == n \div 2^d
             r == n % 2^d
         IN  IF r > 2^(d - 1) \/ (r = 2^(d - 1) /\ q % 2 = 1) THEN q + 1 ELSE q

\* the f32 nearest to n * 2^e for n of b bits
round_bits(n, b, e) ==
    IF b <= 24 THEN F32(n * 2^(24 - b), e - (24 - b))
    ELSE LET m == round_ties_even(n, b - 24)
         IN  IF m = 2^24 THEN F32(2^23, e + (b - 24) + 1)
             ELSE F32(m, e + (b - 24))

\* the f32 nearest to n * 2^e, 0 <= n < 2^30
f32_round(n, e) ==
    IF n = 0 THEN F32Zero
    ELSE CHOOSE r \in {round_bits(k, bit_length(k), e) : k \in {n}} : TRUE

\* n with its lowest bit set when bits were lost below it
sticky(n, lost) == IF lost /\ n % 2 = 0 THEN n + 1 ELSE n

\* hi + lo for hi.e >= lo.e: lo is shifted under hi with three bits kept
\* below the significand, the lowest of them sticky
add_aligned(hi, lo) ==
    LET gap == hi.e - lo.e
    IN  IF gap > 26 THEN hi
        ELSE f32_round(hi.m * 8 + sticky((lo.m * 8) \div 2^gap, (lo.m * 8) % 2^gap # 0),
                       hi.e - 3)

\* x + y, each operand evaluated once
f32_add(x, y) ==
    CHOOSE sum \in {IF a.m = 0 THEN b
                    ELSE IF b.m = 0 THEN a
                    ELSE IF a.e >= b.e THEN add_aligned(a, b) ELSE add_aligned(b, a)
                    : a \in {x}, b \in {y}} : TRUE

\* x * y for significands xm and ym and the sum e of the exponents: the
\* 48-bit product of the significands from their 12-bit halves, its upper
\* bits kept with a sticky bit below
mul_significands(xm, ym, e) ==
    LET xh == xm \div 4096
        xl == xm % 4096
        yh == ym \div 4096
        yl == ym % 4096
        cross == xh * yl + xl * yh
        low == (cross % 4096) * 4096 + xl * yl
        upper == xh * yh + cross \div 4096 + low \div 2^24
        lower == low % 2^24
    IN  f32_round(sticky(upper * 8 + lower \div 2^21, lower % 2^21 # 0), e + 21)

\* x * y, each operand evaluated once
f32_mul(x, y) ==
    CHOOSE product \in {IF a.m = 0 \/ b.m = 0 THEN F32Zero
                        ELSE mul_significands(a.m, b.m, a.e + b.e)
                        : a \in {x}, b \in {y}} : TRUE

\* x < y
f32_lt(x, y) ==
    /\ y.m # 0
    /\ (x.m = 0 \/ x.e < y.e \/ (x.e = y.e /\ x.m < y.m))

MaxOrderAnchors == 3
MaxOrderNode == 4
MaxOrderEdges == 3

\* 0.9 and 0.5
CosineScores == {F32(15099494, -24), F32(8388608, -24)}

\* 1.0 and 0.5
EdgeWeights == {F32(8388608, -23), F32(8388608, -24)}

\* anchors as search_memory builds them: distinct ids, nearest first
ScoredAnchors ==
    {a \in UNION {[1..n -> [id : 1..MaxOrderAnchors, cosine_score : CosineScores]] :
                     n \in 0..MaxOrderAnchors} :
        \A i, j \in DOMAIN a :
            i < j => a[i].id < a[j].id /\ ~f32_lt(a[i].cosine_score, a[j].cosine_score)}

\* the rows of memory_graph_links loaded for them, one row for a pair of
\* nodes, each leading to a node of a higher id
WeightedEdges ==
    {E \in SUBSET {e \in {GraphLink(f, t, "fact", w) :
                             f \in 1..MaxOrderNode, t \in 1..MaxOrderNode,
                             w \in EdgeWeights} : e.from_id < e.to_id} :
        /\ Cardinality(E) <= MaxOrderEdges
        /\ \A e, d \in E : (e.from_id = d.from_id /\ e.to_id = d.to_id) => e = d}

\* spreading_strength = 0.85 as f32, one or two iterations
SpreadConfigs ==
    {[RetrievalConfig EXCEPT !.spreading_strength = F32(14260634, -24), !.iterations = n] :
        n \in 1..2}

\* HashMap::get(id).copied().unwrap_or(0.0), and the entry or_insert(0.0)
\* finds
get_or_zero(map, id) == IF id \in DOMAIN map THEN map[id] ELSE F32Zero

\* mutant of node_activation: the visit reads what the iteration has added
\* to the node so far on top of the map
node_activation_Merged(activation, new_activation, node_id) ==
    f32_add(activation[node_id], get_or_zero(new_activation, node_id))

\* &node_activation: the value the map holds for the visited key; the map
\* is not written while it is iterated
node_activation(activation, new_activation, node_id) == activation[node_id]

RECURSIVE visit_in_order(_, _, _, _, _)
\* the loop over the map in the order `order`: the visit of a node adds its
\* contribution to new_activation[edge.to_id] for each of its edges
visit_in_order(order, activation, new_activation, edges, config) ==
    IF order = <<>> THEN new_activation
    ELSE LET node_id == Head(order)
             neighbors == {e \in edges : e.from_id = node_id}
             seen == node_activation(activation, new_activation, node_id)
             contribution(to) ==
                 f32_mul(f32_mul(seen, (CHOOSE e \in neighbors : e.to_id = to).weight),
                         config.spreading_strength)
         IN  CHOOSE visited \in
                 {visit_in_order(Tail(order), activation, added, edges, config) :
                     added \in {[to \in DOMAIN new_activation
                                        \cup {e.to_id : e \in neighbors} |->
                                    IF \E e \in neighbors : e.to_id = to
                                    THEN f32_add(get_or_zero(new_activation, to),
                                                 contribution(to))
                                    ELSE new_activation[to]]}} : TRUE

\* the merge of new_activation into the map after the loop
merge_activation(activation, new_activation) ==
    [id \in DOMAIN activation \cup DOMAIN new_activation |->
        IF id \in DOMAIN new_activation
        THEN f32_add(get_or_zero(activation, id), new_activation[id])
        ELSE activation[id]]

\* the map before the first iteration: the cosine score of each anchor, of
\* the last anchor of an id
anchor_activation(anchors) ==
    [id \in {anchors[k].id : k \in DOMAIN anchors} |->
        anchors[CHOOSE k \in DOMAIN anchors :
                    /\ anchors[k].id = id
                    /\ \A j \in (k + 1)..Len(anchors) : anchors[j].id # id].cosine_score]

\* a caller has anchors, edges and a configuration with f32 scores
DrawScores ==
    /\ applied = NoApplied
    /\ \E anchors \in ScoredAnchors, edges \in WeightedEdges, config \in SpreadConfigs :
          applied' = [fn |-> "drawn", anchors |-> anchors, edges |-> edges,
                      config |-> config]
    /\ UNCHANGED <<storeVars, serverVars, runtimeVars, pipelineVars>>

\* one iteration of the spreading of drawn anchors and edges, the map
\* visited in some order
SpreadIteration ==
    /\ applied.fn \in {"drawn", "spreading"}
    /\ applied.anchors # <<>>
    /\ applied.edges # {}
    /\ LET activation == IF applied.fn = "drawn" THEN anchor_activation(applied.anchors)
                         ELSE applied.activation
           done == IF applied.fn = "drawn" THEN 0 ELSE applied.done
       IN  /\ done < applied.config.iterations
           /\ \E order \in Orderings(DOMAIN activation) :
                 applied' = [fn |-> "spreading", anchors |-> applied.anchors,
                             edges |-> applied.edges, config |-> applied.config,
                             done |-> done + 1, order |-> order, start |-> activation,
                             activation |->
                                 merge_activation(activation,
                                     visit_in_order(order, activation, <<>>,
                                                    applied.edges, applied.config))]
    /\ UNCHANGED <<storeVars, serverVars, runtimeVars, pipelineVars>>

NextOrder ==
    \/ DrawScores
    \/ SpreadIteration

SpecOrder == InitEmbed /\ [][NextOrder]_vars

\* the edges that bring a contribution to node `to` in the iteration that
\* started with the map `start`
Contributing(start, to) ==
    {e \in applied.edges : e.to_id = to /\ e.from_id \in DOMAIN start}

RECURSIVE SumInOrder(_, _, _)
\* the contributions to node `to` of the nodes of `order`, each from the
\* value the node had in `start`, added up in that order
SumInOrder(order, start, to) ==
    IF order = <<>> THEN F32Zero
    ELSE LET from == {e \in Contributing(start, to) : e.from_id = order[Len(order)]}
         IN  IF from = {} THEN SumInOrder(SubSeq(order, 1, Len(order) - 1), start, to)
             ELSE f32_add(SumInOrder(SubSeq(order, 1, Len(order) - 1), start, to),
                          f32_mul(f32_mul(start[order[Len(order)]],
                                          (CHOOSE e \in from : TRUE).weight),
                                  applied.config.spreading_strength))

\* the map the iteration that started with `start` leaves when it visits
\* the nodes in `order`
AfterOrder(start, order) ==
    merge_activation(start, visit_in_order(order, start, <<>>, applied.edges,
                                           applied.config))

====
